---- MODULE Spec2Model ----
(***************************************************************************)
(* Identity resolution and merge of person records (directmatch).          *)
(*                                                                         *)
(* The store is the persons table reached through the SQLAlchemy session   *)
(* (src/database/models.py, src/database/crud.py); the resolver is         *)
(* DataCollector._save_person_to_db (src/data_collection/collector.py).    *)
(* Python values are modelled as follows: a str is a TLA+ string, None is  *)
(* the reserved string None, a dict is a function whose DOMAIN is its key  *)
(* set, a list is a sequence.                                              *)
(***************************************************************************)
EXTENDS Integers, Sequences, FiniteSets, TLC

VARIABLES
    persons,          \* the persons table: id -> row
    match_score,      \* the match_score column: id -> score (no entry = NULL)
    last_updated_at,  \* the last_updated_at column: id -> time of last write
    next_id,          \* number of ids generate_id has handed out, plus one
    calls,            \* calls of _save_person_to_db made so far
    before,           \* the persons table when the latest call began
    db_ok,            \* whether the database accepted the latest call's write
    person_data,      \* argument of the latest call, as the caller passed it
    existing_person,  \* what find_person_by_identifiers returned to it
    ret,              \* what the call returned: an id, or None
    outcome,          \* "created", "updated" or "failed" for a save; "scored"
                      \* or "score_failed" for a match run; "scores_written"
                      \* or "scores_write_failed" for update_match_scores
                      \* ("none" before any call)
    run_requirements, \* requirement text of the latest match run
    resources_ok,     \* whether the NLTK resources were available to it
    all_persons,      \* ids of the rows get_all_persons handed to it, in order
    similarity_scores, \* the score it computed for each of them, in that order
    match_results,    \* what match_requirements returned
    match_trace,      \* the steps of match_requirements that ran
    run_score_dict,   \* argument of the latest update_match_scores
    score_before,     \* the match_score column when the latest call began
    updated_at_before, \* the last_updated_at column when the latest call began
    collect_pc,       \* where collect_data_parallel stands: "idle", "gather",
                      \* "save", "sequential" or "returned"
    future_to_task,   \* its tasks: (source, keyword) -> state of the future
    task_result,      \* what a completed task returned
    collected_data,   \* the records gathered from the completed futures
    saved_count,      \* how many of them the save loop has handled
    total_collected,  \* what the run returned
    save_log,         \* the run's calls of _save_person_to_db: record, thread,
                      \* result, and the tasks unfinished at the time
    parallel_mode,    \* whether the run used the thread pool
    deleted_count,    \* what the dashboard's latest reset_database returned
    normalized,       \* whether preprocess_text has been called
    input_text,       \* the text of its latest call
    nltk_available,   \* whether the NLTK resources could be loaded in it
    mecab_available,  \* whether the MeCab tagger could be initialized in it
    output_tokens,    \* what the call returned
    mixed_match_results, \* what match_requirements returned for the person
                      \* with that text and a person with an English summary
    resolver_pc,      \* two overlapping resolver calls: thread -> "idle",
                      \* "looked_up" or "done"
    resolver_data,    \* thread -> the record of its call
    resolver_found,   \* thread -> what its lookup returned
    resolver_ret,     \* thread -> what its call returned
    overlapped,       \* whether both lookups preceded both writes
    table_columns,    \* the SQLite persons table of an installation that
                      \* predates data_sources: its column names
    sqlite_rows,      \* its rows: id -> the columns the migration reads
    data_sources_cell, \* its data_sources cells: id -> list (no entry = NULL)
    migration_outcome, \* "none", "added" or "present": what the latest
                      \* migrate_add_data_sources_column found and did
    cells_before,     \* the data_sources cells when it began
    collecting,       \* st.session_state.collecting (absent counts as False)
    collection_completed, \* st.session_state.collection_completed
    collected_count,  \* st.session_state.collected_count
    progress,         \* st.session_state.progress, in percent
    accepted_clicks,  \* clicks on "start collection" that set collecting
    service_calls,    \* calls of service.collect_data made by the dashboard
    called_in_run,    \* whether the latest script run called the service
    button            \* what st.button("start collection") returned in it

\* The store and the record of the latest call on it.
db_vars == <<persons, match_score, next_id, calls, before, db_ok, person_data,
             existing_person, ret, outcome, run_requirements, resources_ok,
             all_persons, similarity_scores, match_results, match_trace,
             run_score_dict, score_before, last_updated_at, updated_at_before>>

\* The state of a run of collect_data_parallel.
parallel_vars == <<collect_pc, future_to_task, task_result, collected_data,
                   saved_count, total_collected, save_log, parallel_mode>>

\* The state of the callers of the store.
\* The state of the dashboard session.
session_vars == <<collecting, collection_completed, collected_count, progress,
                  accepted_clicks, service_calls, called_in_run, button>>

dashboard_vars == <<deleted_count, session_vars>>

\* A call of the text normalizer and the match that uses it.
normalizer_vars == <<normalized, input_text, nltk_available, mecab_available,
                     output_tokens, mixed_match_results>>

\* Two resolver calls made by concurrent callers, each with its own session.
race_vars == <<resolver_pc, resolver_data, resolver_found, resolver_ret, overlapped>>

\* The table migrate_add_data_sources_column works on.
migration_vars == <<table_columns, sqlite_rows, data_sources_cell,
                    migration_outcome, cells_before>>

caller_vars == <<parallel_vars, dashboard_vars, normalizer_vars, race_vars,
                 migration_vars>>

\* What a run of collect_data_parallel leaves alone besides the store.
outside_parallel == <<dashboard_vars, normalizer_vars, race_vars, migration_vars>>

\* What the dashboard leaves alone besides the store.
outside_dashboard == <<parallel_vars, normalizer_vars, race_vars, migration_vars>>

\* What the normalizer leaves alone besides the store.
outside_normalizer == <<parallel_vars, dashboard_vars, race_vars, migration_vars>>

\* What the migration leaves alone besides the store.
outside_migration == <<parallel_vars, dashboard_vars, normalizer_vars, race_vars>>

\* What concurrent resolver calls leave alone besides the store.
outside_race == <<parallel_vars, dashboard_vars, normalizer_vars, migration_vars>>

vars == <<db_vars, caller_vars>>

\* ------------------------------------------------------------------ bounds
\* Number of _save_person_to_db calls in one run (caps the ids handed out
\* and the length a summary can reach).
MaxCalls == 3

\* ------------------------------------------------------------ Python values
None == "None"

\* Python truthiness of a str-or-None value: None and "" are falsy.
Truthy(v) == v # None /\ v # ""

\* dict.get(key): the value, or None when the key is absent.
Get(d, k) == IF k \in DOMAIN d THEN d[k] ELSE None

\* dict.get(key, default)
GetDefault(d, k, default) == IF k \in DOMAIN d THEN d[k] ELSE default

\* `x in list`
InList(x, l) == \E i \in 1..Len(l) : l[i] = x

\* --------------------------------------------------------------- the schema
\* Columns of the persons table that the Person class declares and the
\* resolver reads or writes.
ModelColumns ==
    {"id", "full_name", "email", "current_affiliation",
     "github_username", "qiita_id", "orcid_id",
     "linkedin_url", "personal_blog_url",
     "is_researcher", "is_engineer", "experience_summary",
     "raw_github_data", "raw_qiita_data", "raw_openalex_data", "raw_kaken_data"}

\* The data_sources column: collector.py, app.py and migration.py use it as a
\* column of persons holding the ordered list of source names.
data_sources_column == "data_sources"

Columns == ModelColumns \cup {data_sources_column}

\* Columns declared unique=True.
UniqueColumns == {"github_username", "qiita_id", "orcid_id"}

\* String columns declared nullable=False. (id is always assigned by its
\* default; is_researcher and is_engineer, also NOT NULL, always hold a
\* Boolean: the constructor's value or the column default False.)
NotNullColumns == {"full_name"}

\* generate_id: a uuid4 string; the n-th id handed out.
generate_id(n) == "p" \o ToString(n)

\* Column defaults applied on INSERT when the constructor got no value
\* (data_sources always gets one from _save_person_to_db).
ColumnDefault(k, n) ==
    IF k = "id" THEN generate_id(n)
    ELSE IF k \in {"is_researcher", "is_engineer"} THEN FALSE
    ELSE IF k = data_sources_column THEN << >>
    ELSE None

\* A table that enforces NOT NULL only.
NotNullOnly(ps) ==
    \A i \in DOMAIN ps : \A k \in NotNullColumns : ps[i][k] # None

\* The table constraints a commit enforces on the rows it writes: NOT NULL
\* and UNIQUE (SQL UNIQUE admits any number of NULLs; "" is a value).
ConstraintsHold(ps) ==
    /\ \A i \in DOMAIN ps : \A k \in NotNullColumns : ps[i][k] # None
    /\ \A i, j \in DOMAIN ps : \A k \in UniqueColumns :
          (i # j /\ ps[i][k] # None) => ps[i][k] # ps[j][k]

\* ------------------------------------------------------------------- crud
\* Query.filter(column == value).first(): the rows that satisfy the filter;
\* first() returns one of them (no ORDER BY) or None when there is none.
FilterBy(ps, k, v) == {i \in DOMAIN ps : ps[i][k] = v}

FilterByNameAffiliation(ps, n, a) ==
    {i \in DOMAIN ps : ps[i].full_name = n /\ ps[i].current_affiliation = a}

\* A lookup that consults only the highest-priority identifier the dict
\* carries (elif instead of if).
find_by_first_carried_only(ps, identifiers) ==
    IF Truthy(Get(identifiers, "email"))
    THEN FilterBy(ps, "email", identifiers["email"])
    ELSE IF Truthy(Get(identifiers, "orcid_id"))
    THEN FilterBy(ps, "orcid_id", identifiers["orcid_id"])
    ELSE IF Truthy(Get(identifiers, "github_username"))
    THEN FilterBy(ps, "github_username", identifiers["github_username"])
    ELSE IF Truthy(Get(identifiers, "full_name"))
            /\ Truthy(Get(identifiers, "current_affiliation"))
    THEN FilterByNameAffiliation(ps, identifiers["full_name"],
                                 identifiers["current_affiliation"])
    ELSE {}

\* A lookup that tries github_username before email.
find_by_github_username_first(ps, identifiers) ==
    LET byEmail == IF Truthy(Get(identifiers, "email"))
                   THEN FilterBy(ps, "email", identifiers["email"]) ELSE {}
        byOrcid == IF Truthy(Get(identifiers, "orcid_id"))
                   THEN FilterBy(ps, "orcid_id", identifiers["orcid_id"]) ELSE {}
        byGithub == IF Truthy(Get(identifiers, "github_username"))
                    THEN FilterBy(ps, "github_username", identifiers["github_username"])
                    ELSE {}
        byName == IF Truthy(Get(identifiers, "full_name"))
                     /\ Truthy(Get(identifiers, "current_affiliation"))
                  THEN FilterByNameAffiliation(ps, identifiers["full_name"],
                                               identifiers["current_affiliation"])
                  ELSE {}
    IN  IF byGithub # {} THEN byGithub
        ELSE IF byEmail # {} THEN byEmail
        ELSE IF byOrcid # {} THEN byOrcid
        ELSE byName

\* find_person_by_identifiers: the set of ids first() may return at the
\* first lookup, in priority order, that finds a row; {} stands for None.
find_person_by_identifiers(ps, identifiers) ==
    LET byEmail == IF Truthy(Get(identifiers, "email"))
                   THEN FilterBy(ps, "email", identifiers["email"]) ELSE {}
        byOrcid == IF Truthy(Get(identifiers, "orcid_id"))
                   THEN FilterBy(ps, "orcid_id", identifiers["orcid_id"]) ELSE {}
        byGithub == IF Truthy(Get(identifiers, "github_username"))
                    THEN FilterBy(ps, "github_username", identifiers["github_username"])
                    ELSE {}
        byName == IF Truthy(Get(identifiers, "full_name"))
                     /\ Truthy(Get(identifiers, "current_affiliation"))
                  THEN FilterByNameAffiliation(ps, identifiers["full_name"],
                                               identifiers["current_affiliation"])
                  ELSE {}
    IN  IF byEmail # {} THEN byEmail
        ELSE IF byOrcid # {} THEN byOrcid
        ELSE IF byGithub # {} THEN byGithub
        ELSE byName

\* Person(**person_data) followed by INSERT: every column takes the value of
\* its key, or its default.
NewRow(data, n) ==
    [k \in Columns |-> IF k \in DOMAIN data THEN data[k] ELSE ColumnDefault(k, n)]

\* create_person: [ok, persons, id]. The constructor rejects a key that is
\* no column; the commit fails on a primary-key or constraint violation or
\* when the database write fails (io_ok = FALSE); the rollback then leaves
\* the table as it was and the exception is re-raised.
create_person(ps, n, data, io_ok) ==
    LET row == NewRow(data, n)
        after == [i \in DOMAIN ps \cup {row.id} |->
                     IF i = row.id THEN row ELSE ps[i]]
    IN  IF /\ DOMAIN data \subseteq Columns
           /\ io_ok
           /\ row.id \notin DOMAIN ps
           /\ ConstraintsHold(after)
        THEN [ok |-> TRUE, persons |-> after, id |-> row.id]
        ELSE [ok |-> FALSE, persons |-> ps, id |-> None]

\* A setattr loop that replaces the row: a raw payload the update does not
\* carry is reset.
SetAttrsReplacingRow(row, data) ==
    [k \in Columns |->
        IF k \in DOMAIN data THEN data[k]
        ELSE IF k \in {"raw_github_data", "raw_qiita_data",
                       "raw_openalex_data", "raw_kaken_data"} THEN None
        ELSE row[k]]

\* A setattr loop that also rewrites the primary key.
SetAttrsAndId(row, data) ==
    [k \in Columns |-> IF k = "id" THEN row[k] \o "x"
                       ELSE IF k \in DOMAIN data THEN data[k] ELSE row[k]]

\* The setattr loop of update_person on one row.
SetAttrs(row, data) ==
    [k \in Columns |-> IF k \in DOMAIN data THEN data[k] ELSE row[k]]

\* An update whose setattr loop runs over every stored person.
update_every_person(ps, person_id, update_data, io_ok) ==
    IF person_id \notin DOMAIN ps
    THEN [ok |-> TRUE, persons |-> ps, id |-> None]
    ELSE LET after == [i \in DOMAIN ps |->
                          [k \in Columns |->
                              IF k \in DOMAIN update_data THEN update_data[k]
                              ELSE ps[i][k]]]
         IN  IF io_ok /\ ConstraintsHold(after)
             THEN [ok |-> TRUE, persons |-> after, id |-> person_id]
             ELSE [ok |-> FALSE, persons |-> ps, id |-> None]

\* update_person: [ok, persons, id]; id is None when person_id is unknown.
update_person(ps, person_id, update_data, io_ok) ==
    IF person_id \notin DOMAIN ps
    THEN [ok |-> TRUE, persons |-> ps, id |-> None]
    ELSE LET after == [ps EXCEPT ![person_id] = SetAttrs(@, update_data)]
         IN  IF io_ok /\ ConstraintsHold(after)
             THEN [ok |-> TRUE, persons |-> after, id |-> person_id]
             ELSE [ok |-> FALSE, persons |-> ps, id |-> None]

\* A reset that deletes one person only.
delete_one_person(ps, io_ok) ==
    IF ~io_ok \/ DOMAIN ps = {}
    THEN [ok |-> io_ok, persons |-> ps, count |-> 0]
    ELSE [ok |-> TRUE,
          persons |-> [i \in DOMAIN ps \ {CHOOSE j \in DOMAIN ps : TRUE} |-> ps[i]],
          count |-> 1]

\* delete_all_persons(db): every row is deleted in one transaction and the
\* number of deleted rows returned; a failed commit is rolled back and the
\* exception raised.
delete_all_persons(ps, io_ok) ==
    IF io_ok
    THEN [ok |-> TRUE, persons |-> << >>, count |-> Cardinality(DOMAIN ps)]
    ELSE [ok |-> FALSE, persons |-> ps, count |-> 0]

\* A column restricted to the rows that are left.
RestrictTo(column, ids) == [i \in DOMAIN column \cap ids |-> column[i]]

\* func.now() during a call: the calls are numbered, and a call's writes
\* carry its number as their time.
now(n) == n + 1

\* last_updated_at of a new row (default=func.now()).
StampCreated(lu, id, t) == [i \in DOMAIN lu \cup {id} |-> IF i = id THEN t ELSE lu[i]]

\* last_updated_at after a commit (onupdate=func.now()): the rows the
\* commit changed are stamped.
StampUpdated(lu, ids, t) == [i \in DOMAIN lu |-> IF i \in ids THEN t ELSE lu[i]]

\* The persons whose match_score a write-back changes.
ScoreChanged(ps, ms, score_dict) ==
    {i \in DOMAIN score_dict \cap DOMAIN ps :
        i \notin DOMAIN ms \/ ms[i] # score_dict[i]}

\* A write-back that stores a score for every id of the dictionary.
update_match_scores_for_every_id(ps, ms, score_dict, io_ok) ==
    LET after == [i \in DOMAIN ms \cup DOMAIN score_dict |->
                     IF i \in DOMAIN score_dict THEN score_dict[i] ELSE ms[i]]
    IN  IF io_ok THEN [ok |-> TRUE, match_score |-> after]
        ELSE [ok |-> FALSE, match_score |-> ms]

\* update_match_scores: [ok, match_score]. Each id of score_dict that is a
\* stored person gets its score; one commit for all of them, and a failed
\* commit is rolled back and re-raised.
update_match_scores(ps, ms, score_dict, io_ok) ==
    LET hit == DOMAIN score_dict \cap DOMAIN ps
        after == [i \in DOMAIN ms \cup hit |->
                     IF i \in hit THEN score_dict[i] ELSE ms[i]]
    IN  IF io_ok THEN [ok |-> TRUE, match_score |-> after]
        ELSE [ok |-> FALSE, match_score |-> ms]

\* ---------------------------------------------------------------- resolver
\* person_data[key] = value
Put(d, k, v) == [x \in DOMAIN d \cup {k} |-> IF x = k THEN v ELSE d[x]]

\* key.startswith("raw_")
StartsWithRaw(k) == Len(k) >= 4 /\ SubSeq(k, 1, 4) = "raw_"

\* The identifiers dict built from person_data.
Identifiers(data) ==
    [k \in {"email", "orcid_id", "github_username", "full_name",
            "current_affiliation"} |-> Get(data, k)]

\* experience_summary is concatenated when both sides are non-empty.
MergeSummary(row, data) ==
    IF Truthy(Get(data, "experience_summary")) /\ Truthy(row.experience_summary)
    THEN Put(data, "experience_summary",
             row.experience_summary \o "\n\n" \o data["experience_summary"])
    ELSE data

\* A merge that takes the incoming flags as they are.
MergeFlagsIncomingOnly(row, data) == data

\* A flag that is true on the stored person is forced to true.
MergeFlags(row, data) ==
    LET d1 == IF row.is_engineer THEN Put(data, "is_engineer", TRUE) ELSE data
    IN  IF row.is_researcher THEN Put(d1, "is_researcher", TRUE) ELSE d1

\* The raw_* loop: setattr on the matched row for every raw_ key whose
\* value is not None.
MergeRaw(row, data) ==
    [k \in Columns |->
        IF k \in DOMAIN data /\ StartsWithRaw(k) /\ data[k] # None
        THEN data[k] ELSE row[k]]

\* An append without the membership test.
AppendAlways(existing_sources, new_sources) == existing_sources \o new_sources

\* for source in new_sources: append when not already in existing_sources.
RECURSIVE AppendNew(_, _)
AppendNew(existing_sources, new_sources) ==
    IF new_sources = << >> THEN existing_sources
    ELSE AppendNew(IF InList(Head(new_sources), existing_sources)
                   THEN existing_sources
                   ELSE Append(existing_sources, Head(new_sources)),
                   Tail(new_sources))

\* A merge that keeps the stored list and drops the incoming sources.
MergeSourcesKeepingStored(row, data) ==
    IF "data_sources" \in DOMAIN data
    THEN Put(data, "data_sources", row.data_sources)
    ELSE data

\* data_sources is merged only when the incoming list is non-empty.
MergeSources(row, data) ==
    LET new_sources == GetDefault(data, "data_sources", << >>)
    IN  IF new_sources # << >>
        THEN Put(data, "data_sources", AppendNew(row.data_sources, new_sources))
        ELSE data

\* An update branch whose failed write keeps the raw payloads it had set on
\* the matched person.
MergeIntoWithoutRollback(ps, id, data, io_ok) ==
    LET row == ps[id]
        merged == MergeSources(row, MergeFlags(row, MergeSummary(row, data)))
        touched == [ps EXCEPT ![id] = MergeRaw(row, merged)]
        upd == update_person(touched, id, merged, io_ok)
    IN  IF upd.ok
        THEN [outcome |-> "updated", persons |-> upd.persons, ret |-> upd.id]
        ELSE [outcome |-> "failed", persons |-> touched, ret |-> None]

\* The update branch of _save_person_to_db for the matched person.
MergeInto(ps, id, data, io_ok) ==
    LET row == ps[id]
        merged == MergeSources(row, MergeFlags(row, MergeSummary(row, data)))
        touched == [ps EXCEPT ![id] = MergeRaw(row, merged)]
        upd == update_person(touched, id, merged, io_ok)
    IN  IF upd.ok
        THEN [outcome |-> "updated", persons |-> upd.persons, ret |-> upd.id]
        ELSE [outcome |-> "failed", persons |-> ps, ret |-> None]

\* The create branch: data_sources defaults to the empty list.
CreateFrom(ps, n, data, io_ok) ==
    LET d == IF "data_sources" \in DOMAIN data THEN data
             ELSE Put(data, "data_sources", << >>)
        new == create_person(ps, n, d, io_ok)
    IN  IF new.ok
        THEN [outcome |-> "created", persons |-> new.persons, ret |-> new.id]
        ELSE [outcome |-> "failed", persons |-> ps, ret |-> None]

\* _save_person_to_db with first() having returned `existing` (an id, or
\* None): what is stored afterwards and what is returned.
SaveOutcome(ps, n, data, existing, io_ok) ==
    IF existing # None THEN MergeInto(ps, existing, data, io_ok)
    ELSE CreateFrom(ps, n, data, io_ok)

\* What first() may hand to _save_person_to_db for this record.
Resolutions(ps, data) ==
    LET found == find_person_by_identifiers(ps, Identifiers(data))
    IN  IF found = {} THEN {None} ELSE found

\* -------------------------------------------------------------- extractors
\* sep.join(texts)
RECURSIVE Join(_, _)
Join(sep, texts) ==
    IF texts = << >> THEN ""
    ELSE IF Len(texts) = 1 THEN texts[1]
    ELSE texts[1] \o sep \o Join(sep, Tail(texts))

\* seq[:n]
Take(seq, n) == SubSeq(seq, 1, IF Len(seq) < n THEN Len(seq) ELSE n)

\* Python `a or b` on str-or-None values
Or(a, b) == IF Truthy(a) THEN a ELSE b

\* The texts one GitHub repository contributes.
RepoTexts(repo) ==
    (IF Truthy(repo.description)
     THEN <<"Repository: " \o repo.name \o " - " \o repo.description>>
     ELSE << >>)
    \o (IF Truthy(repo.language) THEN <<"Language: " \o repo.language>> ELSE << >>)

RECURSIVE ReposTexts(_)
ReposTexts(repos) ==
    IF repos = << >> THEN << >>
    ELSE RepoTexts(Head(repos)) \o ReposTexts(Tail(repos))

\* GitHubClient.extract_person_data, then the data_sources tag set by
\* collect_from_github. user_data.payload stands for the API response body
\* that is stored whole in raw_github_data.
GitHubPersonData(user_data, repos_data) ==
    LET experience_texts ==
            (IF Truthy(user_data.bio) THEN <<user_data.bio>> ELSE << >>)
            \o ReposTexts(Take(repos_data, 5))
    IN  [full_name |-> Or(user_data.name, user_data.login),
         email |-> user_data.email,
         current_affiliation |-> user_data.company,
         github_username |-> user_data.login,
         personal_blog_url |-> user_data.blog,
         is_engineer |-> TRUE,
         is_researcher |-> FALSE,
         experience_summary |-> Join("\n", experience_texts),
         raw_github_data |-> user_data.payload,
         data_sources |-> <<"github">>]

\* The texts one Qiita article contributes ("Article: " and "Tags: " stand
\* for the Japanese labels of the source).
ItemTexts(item) ==
    (IF Truthy(item.title) THEN <<"Article: " \o item.title>> ELSE << >>)
    \o (IF item.tags # << >> THEN <<"Tags: " \o Join(", ", item.tags)>> ELSE << >>)

RECURSIVE ItemsTexts(_)
ItemsTexts(items) ==
    IF items = << >> THEN << >>
    ELSE ItemTexts(Head(items)) \o ItemsTexts(Tail(items))

\* QiitaClient.extract_person_data, then the tag set by collect_from_qiita.
QiitaPersonData(user_data, items_data) ==
    LET experience_texts ==
            (IF Truthy(user_data.description) THEN <<user_data.description>> ELSE << >>)
            \o ItemsTexts(Take(items_data, 5))
    IN  [full_name |-> Or(user_data.name, user_data.id),
         qiita_id |-> user_data.id,
         current_affiliation |-> user_data.organization,
         personal_blog_url |-> Or(user_data.website_url, user_data.twitter_screen_name),
         is_engineer |-> TRUE,
         is_researcher |-> FALSE,
         experience_summary |-> Join("\n", experience_texts),
         raw_qiita_data |-> user_data.payload,
         data_sources |-> <<"qiita">>]

\* url.split("orcid.org/")[-1] for a url that contains "orcid.org/".
AfterLastOrcidOrg(url) ==
    LET marker == "orcid.org/"
        at == {i \in 1..(Len(url) - Len(marker) + 1) :
                  SubSeq(url, i, i + Len(marker) - 1) = marker}
    IN  IF at = {} THEN url
        ELSE LET last == CHOOSE i \in at : \A j \in at : j <= i
             IN  SubSeq(url, last + Len(marker), Len(url))

\* The ORCID iD OpenAlex records carry: "" unless the author has an orcid
\* url that contains "orcid.org/".
OrcidId(orcid_url) ==
    IF Truthy(orcid_url) /\ AfterLastOrcidOrg(orcid_url) # orcid_url
    THEN AfterLastOrcidOrg(orcid_url) ELSE ""

\* OpenAlexClient.extract_person_data for an author without works, then the
\* tag set by collect_from_openalex ("Affiliation: " stands for the
\* Japanese label). institution is last_known_institution.display_name, or
\* None when the author has no last_known_institution.
OpenAlexPersonData(author_data) ==
    LET institution == IF author_data.institution # None
                       THEN author_data.institution ELSE ""
        experience_texts ==
            IF author_data.institution # None
            THEN <<"Affiliation: " \o institution>> ELSE << >>
    IN  [full_name |-> author_data.display_name,
         orcid_id |-> OrcidId(author_data.orcid),
         current_affiliation |-> institution,
         is_engineer |-> FALSE,
         is_researcher |-> TRUE,
         experience_summary |-> Join("\n", experience_texts),
         raw_openalex_data |-> author_data.payload,
         data_sources |-> <<"openalex">>]

\* KakenClient.extract_person_data, then the tag set by collect_from_kaken
\* ("Affiliation: ", "Keywords: ", "Projects: " and "Results: " stand for
\* the Japanese labels).
KakenPersonData(researcher_data) ==
    LET institution == Join(", ", researcher_data.affiliation)
        experience_texts ==
            (IF institution # "" THEN <<"Affiliation: " \o institution>> ELSE << >>)
            \o (IF researcher_data.keywords # << >>
                THEN <<"Keywords: " \o Join(", ", researcher_data.keywords)>>
                ELSE << >>)
            \o <<"Projects: " \o ToString(researcher_data.research_projects_count),
                 "Results: " \o ToString(researcher_data.research_results_count)>>
    IN  [full_name |-> researcher_data.name,
         current_affiliation |-> institution,
         is_engineer |-> FALSE,
         is_researcher |-> TRUE,
         experience_summary |-> Join("\n", experience_texts),
         raw_kaken_data |-> researcher_data.payload,
         data_sources |-> <<"kaken">>]

\* -------------------------------------------------------------- normalizer
\* The texts of the model are ASCII; the characters of JapaneseChars stand
\* for characters above U+3000 (kana and kanji). The texts of the
\* collection and match runs contain none of them, so there the ratio
\* computed by preprocess_text is 0 and preprocess_english applies.
UpperCase == "ABCDEFGHIJKLMNOPQRSTUVWXYZ"
LowerCase == "abcdefghijklmnopqrstuvwxyz"
Digits == "0123456789"

\* Position of the character c in the string str, 0 when absent.
IndexOf(c, str) ==
    IF \E i \in 1..Len(str) : SubSeq(str, i, i) = c
    THEN CHOOSE i \in 1..Len(str) :
            /\ SubSeq(str, i, i) = c
            /\ \A j \in 1..(i - 1) : SubSeq(str, j, j) # c
    ELSE 0

\* The characters of a string.
CharsOf(str) == {SubSeq(str, i, i) : i \in 1..Len(str)}

LowerCaseLetters == CharsOf(LowerCase)
DigitChars == CharsOf(Digits)

\* str.lower() of one character.
LowerOf ==
    [c \in CharsOf(UpperCase) |->
        SubSeq(LowerCase, IndexOf(c, UpperCase), IndexOf(c, UpperCase))]

LowerChar(c) == IF c \in DOMAIN LowerOf THEN LowerOf[c] ELSE c

IsWhitespace(c) == c \in {" ", "\n", "\t", "\r"}

\* re.sub(r'[^a-z0-9\s]', ' ', text.lower())
RECURSIVE CleanText(_)
CleanText(text) ==
    IF text = "" THEN ""
    ELSE LET c == LowerChar(SubSeq(text, 1, 1))
             kept == IF \/ c \in LowerCaseLetters
                        \/ c \in DigitChars
                        \/ IsWhitespace(c)
                     THEN c ELSE " "
         IN  kept \o CleanText(SubSeq(text, 2, Len(text)))

\* word_tokenize on a text of letters, digits and whitespace: the maximal
\* runs of non-whitespace characters. `word` is the run being read.
RECURSIVE SplitWords(_, _)
SplitWords(text, word) ==
    IF text = "" THEN (IF word = "" THEN << >> ELSE <<word>>)
    ELSE LET c == SubSeq(text, 1, 1)
             rest == SubSeq(text, 2, Len(text))
         IN  IF IsWhitespace(c)
             THEN (IF word = "" THEN << >> ELSE <<word>>) \o SplitWords(rest, "")
             ELSE SplitWords(rest, word \o c)

word_tokenize(text) == SplitWords(text, "")

\* stopwords.words('english'), the entries the texts of the model use.
ENGLISH_STOPWORDS == {"the", "and", "for", "with", "of", "in", "a", "is", "to"}

\* WordNetLemmatizer.lemmatize(word) on the vocabulary of the model: plural
\* nouns go to their singular, every other word is returned as it is.
lemmatize(word) ==
    CASE word = "projects" -> "project"
      [] word = "results" -> "result"
      [] OTHER -> word

\* str.isdigit()
isdigit(word) ==
    /\ word # ""
    /\ \A i \in 1..Len(word) : SubSeq(word, i, i) \in DigitChars

\* preprocess_english: lower-case, strip special characters, tokenize,
\* drop stop words, lemmatize, drop short and numeric tokens; any exception
\* (a missing NLTK resource) yields [].
preprocess_english(text, nltk_ok) ==
    IF ~Truthy(text) THEN << >>
    ELSE IF ~nltk_ok THEN << >>
    ELSE LET tokens == word_tokenize(CleanText(text))
             content == SelectSeq(tokens, LAMBDA w : w \notin ENGLISH_STOPWORDS)
             lemmas == [i \in 1..Len(content) |-> lemmatize(content[i])]
         IN  SelectSeq(lemmas, LAMBDA w : Len(w) > 2 /\ ~isdigit(w))

\* Stand-ins for the characters c with ord(c) > 0x3000.
JapaneseChars == CharsOf("#%")

\* Stand-in for an entry of JAPANESE_STOPWORDS.
JAPANESE_STOPWORDS == {"%%"}

\* jp_chars_ratio > 0.2, in integers: more than a fifth of the characters
\* are Japanese.
RatioDenominator == 5

IsJapaneseText(text) ==
    RatioDenominator * Cardinality({i \in 1..Len(text) : SubSeq(text, i, i) \in JapaneseChars})
        > Len(text)

\* The base forms mecab_tagger(text) yields for nouns, verbs and
\* adjectives: on the texts of the model, the runs of characters between
\* whitespace. The tagger is None, or raises, when fugashi or the ipadic
\* dictionary cannot be loaded.
mecab_tagger(text, mecab_ok) ==
    IF mecab_ok THEN [ok |-> TRUE, words |-> SplitWords(text, "")]
    ELSE [ok |-> FALSE, words |-> << >>]

\* A Japanese pipeline whose failure is reported as a token.
preprocess_japanese_reporting(text, mecab_ok) ==
    IF ~Truthy(text) THEN << >>
    ELSE IF ~mecab_tagger(text, mecab_ok).ok THEN <<"error">>
    ELSE SelectSeq(mecab_tagger(text, mecab_ok).words,
                   LAMBDA w : w \notin JAPANESE_STOPWORDS /\ ~isdigit(w) /\ Len(w) > 1)

\* preprocess_japanese: [] for an empty text; tokenize, keep the base forms
\* that are no stop word, not numeric and longer than one character; []
\* when the tagger cannot be initialized or raises.
preprocess_japanese(text, mecab_ok) ==
    IF ~Truthy(text) THEN << >>
    ELSE LET tagged == mecab_tagger(text, mecab_ok)
         IN  IF ~tagged.ok THEN << >>
             ELSE SelectSeq(tagged.words,
                            LAMBDA w : w \notin JAPANESE_STOPWORDS /\ ~isdigit(w) /\ Len(w) > 1)

\* preprocess_text: [] for an empty text, else the pipeline of the detected
\* language.
preprocess_text(text, nltk_ok, mecab_ok) ==
    IF ~Truthy(text) THEN << >>
    ELSE IF IsJapaneseText(text) THEN preprocess_japanese(text, mecab_ok)
    ELSE preprocess_english(text, nltk_ok)

\* ----------------------------------------------------------------- matcher
\* Similarity scores, in percent.
Scores == {0, 50, 100}

\* get_all_persons(db): the rows in the order the query yields them, cut at
\* the default limit. `order` lists the stored ids in that order.
DefaultLimit == 100

get_all_persons(ps, order) ==
    LET ids == Take(order, DefaultLimit)
    IN  [i \in 1..Len(ids) |-> ps[ids[i]]]

\* A corpus that leaves out the persons without summary.
prepare_corpus_skipping_empty(requirements, rows) ==
    <<requirements>>
    \o [i \in 1..Len(SelectSeq(rows, LAMBDA r : Truthy(r.experience_summary))) |->
           SelectSeq(rows, LAMBDA r : Truthy(r.experience_summary))[i].experience_summary]

\* prepare_corpus: the requirement, then one text per person ("" for a
\* person without summary).
prepare_corpus(requirements, rows) ==
    <<requirements>>
    \o [i \in 1..Len(rows) |->
           IF Truthy(rows[i].experience_summary)
           THEN rows[i].experience_summary ELSE ""]

\* The terms TfidfVectorizer extracts from " ".join(tokens): the tokens of
\* two or more word characters.
VectorizerTerms(tokens) == {tokens[i] : i \in {j \in 1..Len(tokens) : Len(tokens[j]) >= 2}}

\* A vectorizer that accepts an empty vocabulary.
create_tfidf_matrix_lenient(corpus, nltk_ok, mecab_ok) ==
    [ok |-> TRUE,
     matrix |-> [i \in 1..Len(corpus) |-> preprocess_text(corpus[i], nltk_ok, mecab_ok)]]

\* create_tfidf_matrix: [ok, matrix]. Every text is normalized; fit_transform
\* raises when no document yields a term. The matrix is kept as the token
\* list of each document.
create_tfidf_matrix(corpus, nltk_ok, mecab_ok) ==
    LET processed == [i \in 1..Len(corpus) |-> preprocess_text(corpus[i], nltk_ok, mecab_ok)]
        vocabulary == UNION {VectorizerTerms(processed[i]) : i \in 1..Len(processed)}
    IN  IF vocabulary = {} THEN [ok |-> FALSE, matrix |-> << >>]
        ELSE [ok |-> TRUE, matrix |-> processed]

\* What cosine_similarity(query_vector, tfidf_matrix)[0] may be, in percent:
\* one value per document; 0 exactly for the documents that share no term
\* with the query (TF-IDF weights are positive on the terms a document
\* has, and an all-zero row has similarity 0); 100 for the query itself
\* and its copies; equal documents get equal values.
IsCosineSimilarity(matrix, cosine) ==
    /\ DOMAIN cosine = DOMAIN matrix
    /\ \A i \in DOMAIN matrix :
          /\ cosine[i] \in Scores
          /\ cosine[i] = 0
               <=> VectorizerTerms(matrix[1]) \cap VectorizerTerms(matrix[i]) = {}
          /\ (matrix[i] = matrix[1] /\ cosine[i] # 0) => cosine[i] = 100
          /\ \A j \in DOMAIN matrix : matrix[i] = matrix[j] => cosine[i] = cosine[j]

\* compute_similarity_scores: the similarities without the query's own.
compute_similarity_scores(cosine) == Tail(cosine)

\* zip(persons, similarity_scores) as (person.id, score) pairs.
ZipIdScore(rows, scores) ==
    [i \in 1..(IF Len(rows) < Len(scores) THEN Len(rows) ELSE Len(scores)) |->
        <<rows[i].id, scores[i]>>]

\* An insertion that puts a pair before the pairs of equal score.
InsertBeforeEqual(sorted, pair) ==
    LET k == Cardinality({i \in 1..Len(sorted) : sorted[i][2] > pair[2]})
    IN  SubSeq(sorted, 1, k) \o <<pair>> \o SubSeq(sorted, k + 1, Len(sorted))

\* list.sort(key=score, reverse=True) is stable: a pair goes behind every
\* pair of greater or equal score that preceded it.
InsertByScore(sorted, pair) ==
    LET k == Cardinality({i \in 1..Len(sorted) : sorted[i][2] >= pair[2]})
    IN  SubSeq(sorted, 1, k) \o <<pair>> \o SubSeq(sorted, k + 1, Len(sorted))

RECURSIVE SortByScoreDescending(_)
SortByScoreDescending(pairs) ==
    IF pairs = << >> THEN << >>
    ELSE InsertByScore(SortByScoreDescending(SubSeq(pairs, 1, Len(pairs) - 1)),
                       pairs[Len(pairs)])

\* A matcher without the guard on empty input.
match_requirements_unguarded(requirements, rows, cosine, nltk_ok, mecab_ok) ==
    LET corpus == prepare_corpus(requirements, rows)
        tfidf == create_tfidf_matrix(corpus, nltk_ok, mecab_ok)
        scores == compute_similarity_scores(cosine)
    IN  IF ~tfidf.ok
        THEN [results |-> << >>, scores |-> << >>,
              trace |-> <<"prepare_corpus", "preprocess_text", "TfidfVectorizer">>]
        ELSE [results |-> SortByScoreDescending(ZipIdScore(rows, scores)),
              scores |-> scores,
              trace |-> <<"prepare_corpus", "preprocess_text", "TfidfVectorizer",
                          "cosine_similarity", "sort">>]

\* match_requirements: [results, scores, trace]. results is the returned
\* list, scores the similarity of each person in input order, trace the
\* steps that ran. `cosine` is what cosine_similarity returns. An exception
\* in any step is caught and [] returned.
match_requirements(requirements, rows, cosine, nltk_ok, mecab_ok) ==
    IF ~Truthy(requirements) \/ rows = << >>
    THEN [results |-> << >>, scores |-> << >>, trace |-> << >>]
    ELSE LET corpus == prepare_corpus(requirements, rows)
             tfidf == create_tfidf_matrix(corpus, nltk_ok, mecab_ok)
             scores == compute_similarity_scores(cosine)
         IN  IF ~tfidf.ok
             THEN [results |-> << >>, scores |-> << >>,
                   trace |-> <<"prepare_corpus", "preprocess_text", "TfidfVectorizer">>]
             ELSE [results |-> SortByScoreDescending(ZipIdScore(rows, scores)),
                   scores |-> scores,
                   trace |-> <<"prepare_corpus", "preprocess_text", "TfidfVectorizer",
                               "cosine_similarity", "sort">>]

\* The values cosine_similarity may return in a run of match_requirements
\* (<< >> when the run does not get to it).
CosineSimilarities(requirements, rows, nltk_ok, mecab_ok) ==
    LET tfidf == create_tfidf_matrix(prepare_corpus(requirements, rows), nltk_ok, mecab_ok)
    IN  IF ~tfidf.ok THEN {<< >>}
        ELSE {cosine \in [1..Len(tfidf.matrix) -> Scores] :
                 IsCosineSimilarity(tfidf.matrix, cosine)}

\* The orders in which a query without ORDER BY may yield the stored rows.
Orders(ids) ==
    {order \in [1..Cardinality(ids) -> ids] :
        \A i, j \in 1..Cardinality(ids) : order[i] = order[j] => i = j}

\* {person_id: score for person_id, score in match_results}
ScoreDict(pairs) ==
    [id \in {pairs[i][1] : i \in 1..Len(pairs)} |->
        pairs[CHOOSE i \in 1..Len(pairs) :
                          /\ pairs[i][1] = id
                          /\ \A j \in (i + 1)..Len(pairs) :
                                pairs[j][1] # id][2]]

\* ------------------------------------------------------------------ inputs
\* API responses the clients may receive in an identity-resolution run: two
\* GitHub logins, one public email, one ORCID iD, one Qiita id, one name and
\* one affiliation, each possibly missing.
GitHubUsers ==
    [login : {"g1", "g2"}, name : {"n1"}, email : {None, "e1"},
     company : {None, "a1"}, bio : {None}, blog : {None}, payload : {"gh"}]

QiitaUsers ==
    [id : {"q1"}, name : {"n1"}, organization : {"", "a1"},
     description : {None}, website_url : {None}, twitter_screen_name : {None},
     payload : {"qi"}]

OpenAlexAuthors ==
    [display_name : {"n1"}, orcid : {None, "https://orcid.org/o1"},
     institution : {None, "a1"}, payload : {"oa"}]

KakenResearchers ==
    [name : {"n1"}, affiliation : {<< >>, <<"a1">>}, keywords : {<< >>},
     research_projects_count : {0}, research_results_count : {0},
     payload : {"kk"}]

\* The records the four collect_from_* methods hand to _save_person_to_db.
GitHubRecords == {GitHubPersonData(u, << >>) : u \in GitHubUsers}
QiitaRecords == {QiitaPersonData(u, << >>) : u \in QiitaUsers}
OpenAlexRecords == {OpenAlexPersonData(a) : a \in OpenAlexAuthors}
KakenRecords == {KakenPersonData(r) : r \in KakenResearchers}

ClientRecords == GitHubRecords \cup QiitaRecords \cup OpenAlexRecords \cup KakenRecords

\* API responses in a merge run: one person (name "n1" at "a1") seen by all
\* four sources, with and without profile text.
MergeGitHubUsers ==
    [login : {"g1"}, name : {"n1"}, email : {None}, company : {"a1"},
     bio : {None, "A"}, blog : {None}, payload : {"gh"}]

MergeQiitaUsers ==
    [id : {"q1"}, name : {"n1"}, organization : {"a1"},
     description : {"B"}, website_url : {None}, twitter_screen_name : {None},
     payload : {"qi"}]

MergeOpenAlexAuthors ==
    [display_name : {"n1"}, orcid : {None}, institution : {"a1"}, payload : {"oa"}]

MergeKakenResearchers ==
    [name : {"n1"}, affiliation : {<<"a1">>}, keywords : {<< >>},
     research_projects_count : {0}, research_results_count : {0},
     payload : {"kk"}]

MergeRecords ==
    {GitHubPersonData(u, << >>) : u \in MergeGitHubUsers}
    \cup {QiitaPersonData(u, << >>) : u \in MergeQiitaUsers}
    \cup {OpenAlexPersonData(a) : a \in MergeOpenAlexAuthors}
    \cup {KakenPersonData(r) : r \in MergeKakenResearchers}

\* Dicts passed to _save_person_to_db directly: keys may be absent, the
\* summary None and data_sources empty.
DirectRecords ==
    {[full_name |-> "n1", current_affiliation |-> "a1"],
     [full_name |-> "n1", current_affiliation |-> "a1",
      experience_summary |-> None],
     [full_name |-> "n1", current_affiliation |-> "a1",
      experience_summary |-> "B", data_sources |-> << >>]}

\* ----------------------------------------------------------------- actions
\* API responses without a usable name: a KAKEN list entry whose title is
\* only the researcher number, an OpenAlex author whose display_name is
\* null or empty.
IncompleteKakenResearchers ==
    [name : {"", "n1"}, affiliation : {<< >>, <<"a1">>}, keywords : {<< >>},
     research_projects_count : {0}, research_results_count : {0},
     payload : {"kk"}]

IncompleteOpenAlexAuthors ==
    [display_name : {None, ""}, orcid : {None}, institution : {"a1"},
     payload : {"oa"}]

IncompleteRecords ==
    {KakenPersonData(r) : r \in IncompleteKakenResearchers}
    \cup {OpenAlexPersonData(a) : a \in IncompleteOpenAlexAuthors}

\* The GitHub user of the merge run at a later ingestion: the API response
\* has changed.
RefreshedGitHubUsers ==
    [login : {"g1"}, name : {"n1"}, email : {None}, company : {"a1"},
     bio : {None, "A"}, blog : {None}, payload : {"gh2"}]

RefreshedRecords == {GitHubPersonData(u, << >>) : u \in RefreshedGitHubUsers}

\* Records of two persons for the match runs: the summary is absent, empty,
\* made of stop words only, or names skills.
MatchRecords ==
    {[full_name |-> n, current_affiliation |-> "a1"] : n \in {"n1", "n2"}}
    \cup {[full_name |-> n, current_affiliation |-> "a1", experience_summary |-> t] :
            n \in {"n1", "n2"}, t \in {"", "of the", "Python", "Java projects"}}

\* Requirement texts: empty, stop words only, and one naming skills.
Requirements == {"", "the", "Python projects"}

\* An id no stored person has (a person deleted since the scores were
\* computed).
StaleId == "p0"

\* Score dictionaries passed to update_match_scores directly.
ScoreDicts(ps) ==
    UNION {[ids -> {50}] : ids \in SUBSET (DOMAIN ps \cup {StaleId})}

\* The columns of the persons table before the migration.
LegacyColumns ==
    {"id", "github_username", "qiita_id", "orcid_id", "raw_github_data",
     "raw_qiita_data", "raw_openalex_data", "raw_kaken_data"}

Init ==
    /\ persons = << >>
    /\ match_score = << >>
    /\ next_id = 1
    /\ calls = 0
    /\ before = << >>
    /\ db_ok = TRUE
    /\ person_data = << >>
    /\ existing_person = None
    /\ ret = None
    /\ outcome = "none"
    /\ run_requirements = ""
    /\ resources_ok = TRUE
    /\ all_persons = << >>
    /\ similarity_scores = << >>
    /\ match_results = << >>
    /\ match_trace = << >>
    /\ run_score_dict = << >>
    /\ score_before = << >>
    /\ last_updated_at = << >>
    /\ updated_at_before = << >>
    /\ collect_pc = "idle"
    /\ future_to_task = << >>
    /\ task_result = << >>
    /\ collected_data = << >>
    /\ saved_count = 0
    /\ total_collected = 0
    /\ save_log = << >>
    /\ parallel_mode = FALSE
    /\ deleted_count = 0
    /\ normalized = FALSE
    /\ input_text = ""
    /\ nltk_available = TRUE
    /\ mecab_available = TRUE
    /\ output_tokens = << >>
    /\ mixed_match_results = << >>
    /\ resolver_pc = [t \in {"t1", "t2"} |-> "idle"]
    /\ resolver_data = [t \in {"t1", "t2"} |-> << >>]
    /\ resolver_found = [t \in {"t1", "t2"} |-> None]
    /\ resolver_ret = [t \in {"t1", "t2"} |-> None]
    /\ overlapped = FALSE
    /\ table_columns = LegacyColumns
    /\ sqlite_rows = << >>
    /\ data_sources_cell = << >>
    /\ migration_outcome = "none"
    /\ cells_before = << >>
    /\ collecting = FALSE
    /\ collection_completed = FALSE
    /\ collected_count = 0
    /\ progress = 0
    /\ accepted_clicks = 0
    /\ service_calls = 0
    /\ called_in_run = FALSE
    /\ button = FALSE

\* The part of _save_person_to_db after find_person_by_identifiers returned
\* `existing`: the merge or the creation, and the commit.
SaveAfterLookup(data, existing, io_ok) ==
    LET out == SaveOutcome(persons, next_id, data, existing, io_ok)
    IN  /\ persons' = out.persons
        /\ match_score' = match_score
        /\ last_updated_at' =
              IF out.outcome = "created"
              THEN StampCreated(last_updated_at, out.ret, now(calls))
              ELSE StampUpdated(last_updated_at,
                                {i \in DOMAIN persons : out.persons[i] # persons[i]},
                                now(calls))
        /\ next_id' = IF out.outcome = "created" THEN next_id + 1 ELSE next_id
        /\ calls' = calls + 1
        /\ before' = persons
        /\ db_ok' = io_ok
        /\ person_data' = data
        /\ existing_person' = existing
        /\ ret' = out.ret
        /\ outcome' = out.outcome
        /\ run_requirements' = ""
        /\ resources_ok' = TRUE
        /\ all_persons' = << >>
        /\ similarity_scores' = << >>
        /\ match_results' = << >>
        /\ match_trace' = << >>
        /\ run_score_dict' = << >>
        /\ score_before' = match_score
        /\ updated_at_before' = last_updated_at

\* One call of _save_person_to_db(person_data, db_session); io_ok is whether
\* the database accepts the write.
_save_person_to_db(data, io_ok) ==
    /\ calls < MaxCalls
    /\ \E existing \in Resolutions(persons, data) : SaveAfterLookup(data, existing, io_ok)

\* A record collected from one of the four sources is saved.
SaveCollected ==
    \E data \in ClientRecords, io_ok \in BOOLEAN :
        _save_person_to_db(data, io_ok) /\ UNCHANGED caller_vars

Next == SaveCollected

Spec == Init /\ [][Next]_vars

\* match_requirements_with_persons(requirements): the stored persons are
\* read, scored by match_requirements, and the scores written back by
\* update_match_scores; an exception of the write-back propagates.
match_requirements_with_persons(reqs, order, cosine, nltk_ok, io_ok) ==
    /\ calls < MaxCalls
    /\ LET rows == get_all_persons(persons, order)
           m == match_requirements(reqs, rows, cosine, nltk_ok, TRUE)
           dict == ScoreDict(m.results)
           out == update_match_scores(persons, match_score, dict, io_ok)
       IN  /\ match_score' = out.match_score
           /\ last_updated_at' =
                 IF out.ok
                 THEN StampUpdated(last_updated_at,
                                   ScoreChanged(persons, match_score, dict),
                                   now(calls))
                 ELSE last_updated_at
           /\ outcome' = IF out.ok THEN "scored" ELSE "score_failed"
           /\ all_persons' = [i \in 1..Len(rows) |-> rows[i].id]
           /\ similarity_scores' = m.scores
           /\ match_results' = m.results
           /\ match_trace' = m.trace
           /\ run_score_dict' = dict
    /\ run_requirements' = reqs
    /\ resources_ok' = nltk_ok
    /\ score_before' = match_score
    /\ updated_at_before' = last_updated_at
    /\ calls' = calls + 1
    /\ before' = persons
    /\ db_ok' = io_ok
    /\ person_data' = << >>
    /\ existing_person' = None
    /\ ret' = None
    /\ UNCHANGED <<persons, next_id>>

\* A match run against one requirement, with the NLTK resources installed.
UpdateMatchScores ==
    /\ calls < MaxCalls
    /\ \E order \in Orders(DOMAIN persons), io_ok \in BOOLEAN :
          \E cosine \in CosineSimilarities("projects", get_all_persons(persons, order), TRUE, TRUE) :
              match_requirements_with_persons("projects", order, cosine, TRUE, io_ok)
    /\ UNCHANGED caller_vars

\* A match run for any requirement text, the NLTK resources installed or
\* not.
MatchRun ==
    /\ calls < MaxCalls
    /\ \E reqs \in Requirements, order \in Orders(DOMAIN persons),
          nltk_ok \in BOOLEAN, io_ok \in BOOLEAN :
          \E cosine \in CosineSimilarities(reqs, get_all_persons(persons, order), nltk_ok, TRUE) :
              match_requirements_with_persons(reqs, order, cosine, nltk_ok, io_ok)
    /\ UNCHANGED caller_vars

\* One call of update_match_scores(db, score_dict) on its own.
UpdateMatchScoresCall(dict, io_ok) ==
    /\ calls < MaxCalls
    /\ LET out == update_match_scores(persons, match_score, dict, io_ok)
       IN  /\ match_score' = out.match_score
           /\ last_updated_at' =
                 IF out.ok
                 THEN StampUpdated(last_updated_at,
                                   ScoreChanged(persons, match_score, dict),
                                   now(calls))
                 ELSE last_updated_at
           /\ outcome' = IF out.ok THEN "scores_written" ELSE "scores_write_failed"
    /\ run_score_dict' = dict
    /\ score_before' = match_score
    /\ updated_at_before' = last_updated_at
    /\ run_requirements' = ""
    /\ resources_ok' = TRUE
    /\ all_persons' = << >>
    /\ similarity_scores' = << >>
    /\ match_results' = << >>
    /\ match_trace' = << >>
    /\ calls' = calls + 1
    /\ before' = persons
    /\ db_ok' = io_ok
    /\ person_data' = << >>
    /\ existing_person' = None
    /\ ret' = None
    /\ UNCHANGED <<persons, next_id>>

WriteScores ==
    /\ calls < MaxCalls
    /\ \E dict \in ScoreDicts(persons), io_ok \in BOOLEAN :
          UpdateMatchScoresCall(dict, io_ok)
    /\ UNCHANGED caller_vars

\* The records of the match runs are saved.
SaveForMatch ==
    \E data \in MatchRecords, io_ok \in BOOLEAN :
        _save_person_to_db(data, io_ok) /\ UNCHANGED caller_vars

\* Ingestion, match runs and score write-backs in any order.
NextMatch == SaveForMatch \/ MatchRun \/ WriteScores

SpecMatch == Init /\ [][NextMatch]_vars

\* A record collected from GitHub or KAKEN is saved.
SaveCollectedForScoring ==
    \E data \in GitHubRecords \cup KakenRecords, io_ok \in BOOLEAN :
        _save_person_to_db(data, io_ok) /\ UNCHANGED caller_vars

\* Collection runs interleaved with matching runs.
NextScore == SaveCollectedForScoring \/ UpdateMatchScores

SpecScore == Init /\ [][NextScore]_vars

\* An ingestion run over responses some of which lack a name: the
\* collectors pass every extracted record to _save_person_to_db.
SaveIncomplete ==
    \E data \in IncompleteRecords, io_ok \in BOOLEAN :
        _save_person_to_db(data, io_ok) /\ UNCHANGED caller_vars

NextIncomplete == SaveIncomplete

SpecIncomplete == Init /\ [][NextIncomplete]_vars

\* The merge run: records of one person from the four sources, and direct
\* calls with partial dicts.
SaveMergeCollected ==
    \E data \in MergeRecords, io_ok \in BOOLEAN :
        _save_person_to_db(data, io_ok) /\ UNCHANGED caller_vars

SaveDirect ==
    \E data \in DirectRecords, io_ok \in BOOLEAN :
        _save_person_to_db(data, io_ok) /\ UNCHANGED caller_vars

NextMerge == SaveMergeCollected \/ SaveDirect

SpecMerge == Init /\ [][NextMerge]_vars

\* Re-ingestion of a source whose response has changed.
SaveRefreshed ==
    \E data \in RefreshedRecords, io_ok \in BOOLEAN :
        _save_person_to_db(data, io_ok) /\ UNCHANGED caller_vars

NextRefresh == SaveMergeCollected \/ SaveRefreshed

SpecRefresh == Init /\ [][NextRefresh]_vars

\* ----------------------------------------------------------- reset_database
\* RecruitmentService.reset_database(), called from the dashboard's reset
\* button: delete_all_persons and the count it returns.
reset_database(io_ok) ==
    /\ calls < MaxCalls
    /\ LET out == delete_all_persons(persons, io_ok)
       IN  /\ persons' = out.persons
           /\ match_score' = RestrictTo(match_score, DOMAIN out.persons)
           /\ last_updated_at' = RestrictTo(last_updated_at, DOMAIN out.persons)
           /\ outcome' = IF out.ok THEN "reset" ELSE "reset_failed"
           /\ deleted_count' = IF out.ok THEN out.count ELSE deleted_count
    /\ calls' = calls + 1
    /\ before' = persons
    /\ score_before' = match_score
    /\ updated_at_before' = last_updated_at
    /\ db_ok' = io_ok
    /\ person_data' = << >>
    /\ existing_person' = None
    /\ ret' = None
    /\ run_requirements' = ""
    /\ resources_ok' = TRUE
    /\ all_persons' = << >>
    /\ similarity_scores' = << >>
    /\ match_results' = << >>
    /\ match_trace' = << >>
    /\ run_score_dict' = << >>
    /\ UNCHANGED <<next_id, outside_dashboard, session_vars>>

ResetDatabase == \E io_ok \in BOOLEAN : reset_database(io_ok)

\* Ingestion, match runs and resets in any order.
NextReset == SaveCollectedForScoring \/ UpdateMatchScores \/ ResetDatabase

SpecReset == Init /\ [][NextReset]_vars

\* ---------------------------------------------------------- preprocess_text
\* Texts handed to preprocess_text: absent, empty, blank, stop words only,
\* English, numeric, Japanese, and mixed on either side of the ratio.
NormalizerTexts ==
    {None, "", " ", "\n", "the", "of the", "ab", "12", "Python", "Java projects",
     "#", "%%", "#% %#", "#%#% 12", "## Python", "#%# Java projects",
     "Python projects and results #", "Python #%"}

\* The requirement of the match and the other person's summary.
EnglishRequirement == "Python projects"

EnglishSummary == "Python"

\* The two persons of the match: one with the text, one with the English
\* summary.
MixedRows(text) ==
    <<[id |-> "p1", experience_summary |-> text],
      [id |-> "p2", experience_summary |-> EnglishSummary]>>

\* preprocess_text(text) is called, and match_requirements is run over the
\* person with that text and a person with an English summary.
Normalize ==
    \E text \in NormalizerTexts, nltk_ok \in BOOLEAN, mecab_ok \in BOOLEAN :
        \E cosine \in CosineSimilarities(EnglishRequirement, MixedRows(text), nltk_ok, mecab_ok) :
            /\ normalized' = TRUE
            /\ input_text' = text
            /\ nltk_available' = nltk_ok
            /\ mecab_available' = mecab_ok
            /\ output_tokens' = preprocess_text(text, nltk_ok, mecab_ok)
            /\ mixed_match_results' =
                  match_requirements(EnglishRequirement, MixedRows(text), cosine,
                                     nltk_ok, mecab_ok).results
            /\ UNCHANGED <<db_vars, outside_normalizer>>

NextNormalize == Normalize

SpecNormalize == Init /\ [][NextNormalize]_vars

\* ------------------------------------------------- concurrent resolver calls
\* Two callers (two dashboard sessions, or two ingestion processes) call
\* _save_person_to_db at the same time, each on its own session; the
\* lookup and the write of a call are separate steps.
Threads == DOMAIN resolver_pc

\* Records of the concurrent calls: two GitHub users with the same public
\* email, a Qiita user and a KAKEN researcher with the same name and
\* affiliation, an OpenAlex author with an ORCID iD.
RaceRecords ==
    {GitHubPersonData([login |-> l, name |-> "n1", email |-> "e1", company |-> None,
                       bio |-> None, blog |-> None, payload |-> "gh"], << >>) :
        l \in {"g1", "g2"}}
    \cup {QiitaPersonData([id |-> "q1", name |-> "n1", organization |-> "a1",
                           description |-> None, website_url |-> None,
                           twitter_screen_name |-> None, payload |-> "qi"], << >>),
          KakenPersonData([name |-> "n1", affiliation |-> <<"a1">>, keywords |-> << >>,
                           research_projects_count |-> 0,
                           research_results_count |-> 0, payload |-> "kk"]),
          OpenAlexPersonData([display_name |-> "n2", orcid |-> "https://orcid.org/o1",
                              institution |-> None, payload |-> "oa"])}

\* find_person_by_identifiers of one call (collector.py:253).
Lookup(t, data) ==
    /\ resolver_pc[t] = "idle"
    /\ \E existing \in Resolutions(persons, data) :
          resolver_found' = [resolver_found EXCEPT ![t] = existing]
    /\ resolver_data' = [resolver_data EXCEPT ![t] = data]
    /\ resolver_pc' = [resolver_pc EXCEPT ![t] = "looked_up"]
    /\ overlapped' = \A u \in Threads \ {t} : resolver_pc[u] = "looked_up"
    /\ UNCHANGED <<db_vars, resolver_ret, outside_race>>

\* The merge or creation of that call, with the lookup result it holds
\* (collector.py:256-298).
Write(t, io_ok) ==
    /\ resolver_pc[t] = "looked_up"
    /\ SaveAfterLookup(resolver_data[t], resolver_found[t], io_ok)
    /\ resolver_ret' = [resolver_ret EXCEPT ![t] = ret']
    /\ resolver_pc' = [resolver_pc EXCEPT ![t] = "done"]
    /\ UNCHANGED <<resolver_data, resolver_found, overlapped, outside_race>>

ConcurrentLookup == \E t \in Threads, data \in RaceRecords : Lookup(t, data)

ConcurrentWrite == \E t \in Threads, io_ok \in BOOLEAN : Write(t, io_ok)

NextRace == ConcurrentLookup \/ ConcurrentWrite

SpecRace == Init /\ [][NextRace]_vars

\* ------------------------------------------------------------- migration
\* Rows an installation may hold before the migration, by the columns the
\* migration reads.
MaxLegacyRows == 2

LegacyRowIds == <<"r1", "r2", "r3">>

LegacyRows ==
    {[github_username |-> "g1", qiita_id |-> None, orcid_id |-> None,
      raw_github_data |-> "gh", raw_qiita_data |-> None,
      raw_openalex_data |-> None, raw_kaken_data |-> None],
     [github_username |-> None, qiita_id |-> "q1", orcid_id |-> None,
      raw_github_data |-> None, raw_qiita_data |-> "qi",
      raw_openalex_data |-> None, raw_kaken_data |-> None],
     [github_username |-> None, qiita_id |-> None, orcid_id |-> "",
      raw_github_data |-> None, raw_qiita_data |-> None,
      raw_openalex_data |-> "oa", raw_kaken_data |-> None],
     [github_username |-> None, qiita_id |-> None, orcid_id |-> None,
      raw_github_data |-> None, raw_qiita_data |-> None,
      raw_openalex_data |-> None, raw_kaken_data |-> "kk"],
     [github_username |-> "g1", qiita_id |-> "q1", orcid_id |-> "o1",
      raw_github_data |-> "gh", raw_qiita_data |-> "qi",
      raw_openalex_data |-> "oa", raw_kaken_data |-> "kk"],
     [github_username |-> None, qiita_id |-> None, orcid_id |-> None,
      raw_github_data |-> None, raw_qiita_data |-> None,
      raw_openalex_data |-> None, raw_kaken_data |-> None]}

\* The sources the migration infers from one row.
InferSources(row) ==
    (IF Truthy(row.github_username) \/ Truthy(row.raw_github_data)
     THEN <<"github">> ELSE << >>)
    \o (IF Truthy(row.qiita_id) \/ Truthy(row.raw_qiita_data)
        THEN <<"qiita">> ELSE << >>)
    \o (IF Truthy(row.orcid_id) \/ Truthy(row.raw_openalex_data)
        THEN <<"openalex">> ELSE << >>)
    \o (IF Truthy(row.raw_kaken_data) THEN <<"kaken">> ELSE << >>)

\* cursor.execute("SELECT id, ... FROM persons"): a cursor holding the
\* result set, here in the order of the ids.
ExecuteSelect(rows) ==
    [pending |-> SelectSeq(LegacyRowIds, LAMBDA id : id \in DOMAIN rows)]

\* A fetchall that leaves the result set in the cursor.
fetchall_keeping(cursor) ==
    [rows |-> cursor.pending, cursor |-> cursor]

\* cursor.fetchall(): the rows not fetched yet; the cursor is exhausted
\* afterwards.
fetchall(cursor) ==
    [rows |-> cursor.pending, cursor |-> [pending |-> << >>]]

\* The UPDATE loop over the fetched ids.
RECURSIVE UpdateDataSources(_, _, _)
UpdateDataSources(cells, ids, rows) ==
    IF ids = << >> THEN cells
    ELSE UpdateDataSources(
            [i \in DOMAIN cells \cup {Head(ids)} |->
                IF i = Head(ids) THEN InferSources(rows[Head(ids)]) ELSE cells[i]],
            Tail(ids), rows)

\* The table after migrate_add_data_sources_column: the column is added
\* when missing; the SELECT's rows are fetched once for the count in the
\* log and once more for the UPDATE loop.
migrate_add_data_sources_column(columns, rows, cells) ==
    IF "data_sources" \notin columns
    THEN LET cursor == ExecuteSelect(rows)
             counted == fetchall(cursor)
             looped == fetchall(counted.cursor)
         IN  [columns |-> columns \cup {"data_sources"},
              cells |-> UpdateDataSources(cells, looped.rows, rows),
              outcome |-> "added"]
    ELSE [columns |-> columns, cells |-> cells, outcome |-> "present"]

\* A person is stored by the version that predates data_sources.
InsertLegacyRow ==
    /\ "data_sources" \notin table_columns
    /\ Cardinality(DOMAIN sqlite_rows) < MaxLegacyRows
    /\ \E row \in LegacyRows :
          LET id == LegacyRowIds[Cardinality(DOMAIN sqlite_rows) + 1]
          IN  sqlite_rows' = [i \in DOMAIN sqlite_rows \cup {id} |->
                                 IF i = id THEN row ELSE sqlite_rows[i]]
    /\ UNCHANGED <<db_vars, outside_migration, table_columns, data_sources_cell,
                   migration_outcome, cells_before>>

\* run_migrations() at start-up.
RunMigrations ==
    /\ LET out == migrate_add_data_sources_column(table_columns, sqlite_rows,
                                                  data_sources_cell)
       IN  /\ table_columns' = out.columns
           /\ data_sources_cell' = out.cells
           /\ migration_outcome' = out.outcome
    /\ cells_before' = data_sources_cell
    /\ UNCHANGED <<db_vars, outside_migration, sqlite_rows>>

NextMigration == InsertLegacyRow \/ RunMigrations

SpecMigration == Init /\ [][NextMigration]_vars

\* ---------------------------------------------------- collect_data_parallel
\* A run of collect_data_parallel(source_configs, db_session) with one
\* keyword per configured source; a task is named by its source.
SourceOrder == <<"github", "qiita", "openalex", "kaken">>

SourceNames == {SourceOrder[i] : i \in 1..Len(SourceOrder)}

\* The source_configs of the runs: three or four sources.
SourceConfigs == {c \in SUBSET SourceNames : Cardinality(c) >= 3}

\* len(tasks) >= 4: the thread pool is used.
ParallelThreshold == 4

\* ThreadPoolExecutor(max_workers=4)
MaxWorkers == 4

\* What collect_from_<source> extracts from its search result: one person
\* (name "n1" at "a1") known to each source.
SearchResult(source) ==
    CASE source = "github" ->
           GitHubPersonData([login |-> "g1", name |-> "n1", email |-> None,
                             company |-> "a1", bio |-> None, blog |-> None,
                             payload |-> "gh"], << >>)
      [] source = "qiita" ->
           QiitaPersonData([id |-> "q1", name |-> "n1", organization |-> "a1",
                            description |-> None, website_url |-> None,
                            twitter_screen_name |-> None, payload |-> "qi"], << >>)
      [] source = "openalex" ->
           OpenAlexPersonData([display_name |-> "n1", orcid |-> None,
                               institution |-> "a1", payload |-> "oa"])
      [] source = "kaken" ->
           KakenPersonData([name |-> "n1", affiliation |-> <<"a1">>,
                            keywords |-> << >>, research_projects_count |-> 0,
                            research_results_count |-> 0, payload |-> "kk"])

\* The session a worker task hands to collect_from_<source>:
\* _collect_data_from_source passes none, whatever session the run has.
WorkerSessionShared(db_session) == db_session

WorkerSession(db_session) == None

\* A gather step that forgets what was gathered when a future raised.
GatherResetsOnError(collected, state, result) ==
    IF state = "completed" THEN collected \o result ELSE << >>

\* collected_data after the result of one future was taken: extended by
\* the task's records, or left alone when future.result() raised.
GatherResult(collected, state, result) ==
    IF state = "completed" THEN collected \o result ELSE collected

\* The tasks whose worker has not finished.
Unfinished == {t \in DOMAIN future_to_task : future_to_task[t] \in {"submitted", "running"}}

\* The entry the run's log gets for a call of _save_person_to_db.
LogEntry(data, thread, result) ==
    [data |-> data, thread |-> thread, ret |-> result, unfinished |-> Unfinished]

\* collect_data_parallel begins: the tasks are listed; four or more go to
\* the thread pool, fewer to collect_data.
StartCollect ==
    /\ collect_pc = "idle"
    /\ \E configs \in SourceConfigs :
          /\ future_to_task' = [t \in configs |-> "submitted"]
          /\ task_result' = [t \in configs |-> << >>]
          /\ parallel_mode' = (Cardinality(configs) >= ParallelThreshold)
          /\ collect_pc' = IF Cardinality(configs) >= ParallelThreshold
                           THEN "gather" ELSE "sequential"
    /\ UNCHANGED <<db_vars, collected_data, saved_count, total_collected, save_log>>
    /\ UNCHANGED outside_parallel

\* A pool thread takes a submitted task.
WorkerStart ==
    /\ collect_pc = "gather"
    /\ Cardinality({t \in DOMAIN future_to_task : future_to_task[t] = "running"}) < MaxWorkers
    /\ \E t \in DOMAIN future_to_task :
          /\ future_to_task[t] = "submitted"
          /\ future_to_task' = [future_to_task EXCEPT ![t] = "running"]
    /\ UNCHANGED <<db_vars, collect_pc, task_result, collected_data, saved_count,
                   total_collected, save_log, parallel_mode>>
    /\ UNCHANGED outside_parallel

\* The worker's _collect_data_from_source(source, keyword, max_results)
\* ends: it returns the extracted records or raises; collect_from_<source>
\* saves each record itself when it was given a session.
WorkerCollect ==
    /\ collect_pc = "gather"
    /\ \E t \in DOMAIN future_to_task :
          /\ future_to_task[t] = "running"
          /\ \/ /\ future_to_task' = [future_to_task EXCEPT ![t] = "raised"]
                /\ UNCHANGED <<db_vars, task_result, save_log>>
             \/ /\ future_to_task' = [future_to_task EXCEPT ![t] = "completed"]
                /\ task_result' = [task_result EXCEPT ![t] = <<SearchResult(t)>>]
                /\ IF Truthy(WorkerSession("db"))
                   THEN /\ \E io_ok \in BOOLEAN : _save_person_to_db(SearchResult(t), io_ok)
                        /\ save_log' = Append(save_log, LogEntry(SearchResult(t), "worker", ret'))
                   ELSE UNCHANGED <<db_vars, save_log>>
    /\ UNCHANGED <<collect_pc, collected_data, saved_count, total_collected, parallel_mode>>
    /\ UNCHANGED outside_parallel

\* The calling thread takes the next finished future from as_completed;
\* after the last one it goes on to the save loop.
Gather ==
    /\ collect_pc = "gather"
    /\ \E t \in DOMAIN future_to_task :
          /\ future_to_task[t] \in {"completed", "raised"}
          /\ collected_data' = GatherResult(collected_data, future_to_task[t], task_result[t])
          /\ future_to_task' = [future_to_task EXCEPT ![t] = "gathered"]
          /\ collect_pc' = IF \A u \in DOMAIN future_to_task \ {t} : future_to_task[u] = "gathered"
                           THEN "save" ELSE "gather"
    /\ UNCHANGED <<db_vars, task_result, saved_count, total_collected, save_log,
                   parallel_mode>>
    /\ UNCHANGED outside_parallel

\* The save loop of the calling thread handles the next gathered record.
SaveCollectedData ==
    /\ collect_pc = "save"
    /\ saved_count < Len(collected_data)
    /\ \E io_ok \in BOOLEAN : _save_person_to_db(collected_data[saved_count + 1], io_ok)
    /\ save_log' = Append(save_log, LogEntry(collected_data[saved_count + 1], "main", ret'))
    /\ saved_count' = saved_count + 1
    /\ UNCHANGED <<collect_pc, future_to_task, task_result, collected_data,
                   total_collected, parallel_mode>>
    /\ UNCHANGED outside_parallel

\* The first task of collect_data that has not been handled.
NextSequentialTask ==
    SourceOrder[CHOOSE i \in 1..Len(SourceOrder) :
                   /\ SourceOrder[i] \in DOMAIN future_to_task
                   /\ future_to_task[SourceOrder[i]] = "submitted"
                   /\ \A j \in 1..(i - 1) :
                         SourceOrder[j] \in DOMAIN future_to_task
                         => future_to_task[SourceOrder[j]] = "gathered"]

\* collect_data handles its next (source, keyword): collect_from_<source>
\* extracts the record and saves it, or fails with an API error, which it
\* catches.
CollectSequential ==
    /\ collect_pc = "sequential"
    /\ Unfinished # {}
    /\ LET t == NextSequentialTask
       IN  /\ future_to_task' = [future_to_task EXCEPT ![t] = "gathered"]
           /\ \/ /\ task_result' = [task_result EXCEPT ![t] = <<SearchResult(t)>>]
                 /\ collected_data' = Append(collected_data, SearchResult(t))
                 /\ \E io_ok \in BOOLEAN : _save_person_to_db(SearchResult(t), io_ok)
                 /\ save_log' = Append(save_log, LogEntry(SearchResult(t), "main", ret'))
                 /\ saved_count' = saved_count + 1
              \/ UNCHANGED <<db_vars, task_result, collected_data, save_log, saved_count>>
    /\ UNCHANGED <<collect_pc, total_collected, parallel_mode>>
    /\ UNCHANGED outside_parallel

\* The run returns the number of records collected.
ReturnTotal ==
    /\ \/ collect_pc = "save" /\ saved_count = Len(collected_data)
       \/ collect_pc = "sequential" /\ Unfinished = {}
    /\ collect_pc' = "returned"
    /\ total_collected' = Len(collected_data)
    /\ UNCHANGED <<db_vars, future_to_task, task_result, collected_data, saved_count,
                   save_log, parallel_mode>>
    /\ UNCHANGED outside_parallel

NextParallel ==
    \/ StartCollect
    \/ WorkerStart
    \/ WorkerCollect
    \/ Gather
    \/ SaveCollectedData
    \/ CollectSequential
    \/ ReturnTotal

SpecParallel == Init /\ [][NextParallel]_vars

\* ------------------------------------------------- data-collection tab
\* Accepted clicks in one session.
MaxClicks == 3

\* progress = 1.0
ProgressDone == 100

\* A flag that is cleared only when the service returned.
CollectingClearedOnSuccess(result) == result = "raised"

\* st.session_state.collecting at the end of the status column: the flag is
\* reset before the service is called, however the call ends.
CollectingAfterRun(result) == FALSE

\* One run of the dashboard script through the data-collection tab.
\* `clicked` is whether this run was caused by a click on "start
\* collection", `valid_configs` whether a source with keywords is enabled,
\* `result` how service.collect_data ends if it is called: "raised",
\* "nothing" (no record collected) or a source whose record it saves.
main(clicked, valid_configs, result, io_ok) ==
    /\ button' = clicked
    /\ IF clicked /\ valid_configs /\ ~collecting
       THEN \* the click is accepted and st.rerun() ends this run
            /\ accepted_clicks < MaxClicks
            /\ collecting' = TRUE
            /\ progress' = 0
            /\ collected_count' = 0
            /\ collection_completed' = FALSE
            /\ accepted_clicks' = accepted_clicks + 1
            /\ called_in_run' = FALSE
            /\ UNCHANGED <<db_vars, service_calls>>
       ELSE IF collecting
       THEN \* the status column: the flag is cleared, then the service called
            /\ collecting' = CollectingAfterRun(result)
            /\ IF ~collection_completed
               THEN /\ service_calls' = service_calls + 1
                    /\ called_in_run' = TRUE
                    /\ CASE result = "raised" ->
                              UNCHANGED <<db_vars, collected_count, progress,
                                          collection_completed>>
                         [] result = "nothing" ->
                              /\ collected_count' = 0
                              /\ progress' = ProgressDone
                              /\ collection_completed' = TRUE
                              /\ UNCHANGED db_vars
                         [] OTHER ->
                              /\ _save_person_to_db(SearchResult(result), io_ok)
                              /\ collected_count' = 1
                              /\ progress' = ProgressDone
                              /\ collection_completed' = TRUE
               ELSE /\ called_in_run' = FALSE
                    /\ UNCHANGED <<db_vars, service_calls, collected_count, progress,
                                   collection_completed>>
            /\ UNCHANGED accepted_clicks
       ELSE /\ called_in_run' = FALSE
            /\ UNCHANGED <<db_vars, collecting, collection_completed, collected_count,
                           progress, accepted_clicks, service_calls>>

\* A script run caused by a click on "start collection".
ClickStart ==
    /\ \E valid_configs \in BOOLEAN, result \in {"raised", "nothing", "github", "kaken"},
          io_ok \in BOOLEAN :
          main(TRUE, valid_configs, result, io_ok)
    /\ UNCHANGED <<outside_dashboard, deleted_count>>

\* Any other script run: the rerun after an accepted click, or one caused
\* by another widget.
ScriptRerun ==
    /\ \E result \in {"raised", "nothing", "github", "kaken"}, io_ok \in BOOLEAN :
          main(FALSE, TRUE, result, io_ok)
    /\ UNCHANGED <<outside_dashboard, deleted_count>>

NextDashboard == ClickStart \/ ScriptRerun

SpecDashboard == Init /\ [][NextDashboard]_vars

\* ------------------------------------------------------------------ claims
\* Whether the call recorded in the history variables has happened.
Called == outcome \in {"created", "updated", "failed"}

\* The lookup steps in priority order, and whether a stored row is the
\* target of a step for the given identifiers.
Steps == <<"email", "orcid_id", "github_username", "name_affiliation">>

Holds(row, ident, step) ==
    IF step = "name_affiliation"
    THEN /\ Truthy(ident.full_name) /\ Truthy(ident.current_affiliation)
         /\ row.full_name = ident.full_name
         /\ row.current_affiliation = ident.current_affiliation
    ELSE Truthy(ident[step]) /\ row[step] = ident[step]

Holders(ps, ident, s) == {i \in DOMAIN ps : Holds(ps[i], ident, Steps[s])}

\* Identifier dicts a caller may pass to find_person_by_identifiers (a
\* missing identifier is None or "").
IdentifierBags ==
    [email : {None, "e1"}, orcid_id : {"", "o1"},
     github_username : {None, "g1", "g2"}, full_name : {"n1"},
     current_affiliation : {"", "a1"}]

\* The lookup returns a holder of the highest-priority identifier of the
\* dict that some stored person holds, hence never a person who holds only
\* a lower-priority one.
PrecedenceOfLookup(ps, ident) ==
    \A hi \in 1..4 :
        (/\ Holders(ps, ident, hi) # {}
         /\ \A h \in 1..(hi - 1) : Holders(ps, ident, h) = {})
        => /\ find_person_by_identifiers(ps, ident) # {}
           /\ find_person_by_identifiers(ps, ident) \subseteq Holders(ps, ident, hi)

\* C1 (identifier precedence): for every identifier dict and every stored
\* table, the lookup prefers email over orcid_id over github_username over
\* (full_name, current_affiliation) when two of them point at two different
\* stored persons; and every call of _save_person_to_db resolved to a person
\* found by that lookup on its record, so a record whose email is held by P1
\* and whose github_username is held by a different person P2 resolved to
\* P1, never to P2.
C1_IdentifierPrecedence ==
    /\ \A ident \in IdentifierBags : PrecedenceOfLookup(persons, ident)
    /\ Called =>
          /\ existing_person # None =>
                existing_person \in
                    find_person_by_identifiers(before, Identifiers(person_data))
          /\ \A P1, P2 \in DOMAIN before :
                (/\ P1 # P2
                 /\ Truthy(Get(person_data, "email"))
                 /\ before[P1].email = person_data["email"]
                 /\ before[P2].email # person_data["email"]
                 /\ before[P2].github_username = Get(person_data, "github_username"))
                => /\ existing_person # P2
                   /\ existing_person # None
                   /\ before[existing_person].email = person_data["email"]

\* C1 witness: a call whose record carried the email of one stored person
\* and the github_username of another, and resolved to the email's owner.
C1_Witness ==
    /\ Called
    /\ Truthy(Get(person_data, "email"))
    /\ existing_person # None
    /\ before[existing_person].email = person_data["email"]
    /\ \E P2 \in DOMAIN before :
          /\ P2 # existing_person
          /\ before[P2].github_username = person_data["github_username"]

C3_NoMatchCreates ==
    (/\ Called
     /\ db_ok
     /\ ~Truthy(Get(person_data, "email"))
     /\ ~Truthy(Get(person_data, "orcid_id"))
     /\ ~Truthy(Get(person_data, "github_username"))
     /\ \A i \in DOMAIN before :
           ~(/\ before[i].full_name = Get(person_data, "full_name")
             /\ before[i].current_affiliation = Get(person_data, "current_affiliation")))
    => /\ outcome = "created"
       /\ ret # None
       /\ ret \notin DOMAIN before
       /\ DOMAIN persons = DOMAIN before \cup {ret}
       /\ \A i \in DOMAIN before : persons[i] = before[i]

\* Whether a is a prefix of s.
IsPrefix(a, s) == Len(a) <= Len(s) /\ SubSeq(s, 1, Len(a)) = a

\* C4 (summary accumulation): after a merge into a person whose stored
\* summary is A, the stored summary still has A as its prefix, and when the
\* incoming summary B is non-empty it is A, a blank line, then B.
C4_SummaryAccumulates ==
    (Called /\ outcome = "updated") =>
        LET A == before[existing_person].experience_summary
            B == Get(person_data, "experience_summary")
            S == persons[existing_person].experience_summary
        IN  Truthy(A) =>
                /\ S # None
                /\ IsPrefix(A, S)
                /\ Truthy(B) => S = A \o "\n\n" \o B

\* The elements of a list.
Elements(l) == {l[i] : i \in 1..Len(l)}

\* C5 (data_sources never shrinks): after every call, each person stored
\* before it is still stored and its data_sources contains every source it
\* contained before.
C5_SourcesNeverShrink ==
    Called =>
        \A i \in DOMAIN before :
            /\ i \in DOMAIN persons
            /\ Elements(before[i].data_sources) \subseteq Elements(persons[i].data_sources)

\* A list without duplicates.
NoDuplicate(l) == \A i, j \in 1..Len(l) : l[i] = l[j] => i = j

\* The elements of l that are not in `seen`, in order.
RECURSIVE Unseen(_, _)
Unseen(l, seen) ==
    IF l = << >> THEN << >>
    ELSE IF Head(l) \in seen THEN Unseen(Tail(l), seen)
    ELSE <<Head(l)>> \o Unseen(Tail(l), seen \cup {Head(l)})

C7_FlagMonotonicity ==
    Called =>
        /\ \A i \in DOMAIN before :
              /\ before[i].is_engineer => persons[i].is_engineer
              /\ before[i].is_researcher => persons[i].is_researcher
        /\ outcome = "updated" =>
              /\ persons[existing_person].is_engineer
                    = (before[existing_person].is_engineer
                       \/ GetDefault(person_data, "is_engineer", FALSE))
              /\ persons[existing_person].is_researcher
                    = (before[existing_person].is_researcher
                       \/ GetDefault(person_data, "is_researcher", FALSE))

\* C7 witness: a record of an engineer source merged into a person known
\* from a researcher source only; both flags are true afterwards.
C7_Witness ==
    /\ Called /\ outcome = "updated"
    /\ before[existing_person].is_researcher
    /\ ~before[existing_person].is_engineer
    /\ person_data["is_engineer"] /\ ~person_data["is_researcher"]
    /\ persons[existing_person].is_engineer
    /\ persons[existing_person].is_researcher

\* C8 (identifier uniqueness): no two distinct stored persons share a
\* non-null email, a non-null orcid_id or a non-null github_username.
C8_IdentifierUniqueness ==
    \A i, j \in DOMAIN persons :
        i # j =>
            \A k \in {"email", "orcid_id", "github_username"} :
                persons[i][k] # None => persons[i][k] # persons[j][k]

\* C8 witness: a merge that would have given the matched person a
\* github_username another person holds was rejected, and two persons are
\* stored.
C8_Witness ==
    /\ Called /\ db_ok /\ outcome = "failed"
    /\ existing_person # None
    /\ Truthy(Get(person_data, "github_username"))
    /\ \E j \in DOMAIN persons :
          /\ j # existing_person
          /\ persons[j].github_username = person_data["github_username"]

\* C9 (id stability): a person's id is its key, unique among the stored
\* persons, and no save or match-score operation changes or drops it; a
\* save that matched returns the matched, pre-existing id, and a save that
\* did not match returns an id that was not stored before.
C9_IdStability ==
    /\ \A i \in DOMAIN persons : persons[i].id = i
    /\ Cardinality({persons[i].id : i \in DOMAIN persons})
         = Cardinality(DOMAIN persons)
    /\ DOMAIN match_score \subseteq DOMAIN persons
    /\ outcome # "none" =>
          \A i \in DOMAIN before :
              i \in DOMAIN persons /\ persons[i].id = before[i].id
    /\ (Called /\ ret # None) =>
          IF existing_person # None
          THEN ret = existing_person /\ ret \in DOMAIN before
          ELSE ret \notin DOMAIN before /\ ret \in DOMAIN persons

\* C9 witness: a person that was created, scored and then merged into is
\* still stored under the id the merge returned.
C9_Witness ==
    /\ Called /\ outcome = "updated"
    /\ ret = existing_person
    /\ ret \in DOMAIN match_score
    /\ persons[ret] # before[ret]
    /\ persons[ret].id = before[ret].id

\* C10 (write failure is all-or-nothing): a save whose database write
\* fails leaves the stored state exactly as it was before the call and
\* returns None; a rejected write is never reported as a success.
C10_WriteFailureAllOrNothing ==
    Called =>
        /\ ~db_ok => outcome = "failed"
        /\ outcome = "failed" =>
              /\ persons = before
              /\ ret = None

\* C10 witness: the write of a merge into a stored person failed; the merge
\* carried a raw payload and a summary the person did not have.
C10_Witness ==
    /\ Called /\ ~db_ok /\ outcome = "failed"
    /\ existing_person # None
    /\ persons = before
    /\ \E k \in DOMAIN person_data :
          StartsWithRaw(k) /\ persons[existing_person][k] # person_data[k]

\* The stored persons that hold a unique identifier the record carries.
UniqueHolders(ps, data) ==
    {i \in DOMAIN ps :
        \E k \in UniqueColumns \cap DOMAIN data :
            data[k] # None /\ ps[i][k] = data[k]}

\* C11 (constraint violation on create is retried as an update): when the
\* lookup found nobody, the database accepts writes and the create is
\* rejected because a stored person holds one of the record's unique
\* identifiers, the call merges the record into that person and returns
\* that person's id instead of failing.
C11_ConstraintViolationRetried ==
    (/\ Called /\ db_ok
     /\ existing_person = None
     /\ UniqueHolders(before, person_data) # {})
    => /\ outcome = "updated"
       /\ ret \in UniqueHolders(before, person_data)

\* C12 (malformed records never reach the store): the resolver is never
\* called with a record whose full_name is missing or empty, and no stored
\* person has an empty or null full_name.
C12_MalformedNeverStored ==
    /\ Called => Truthy(Get(person_data, "full_name"))
    /\ \A i \in DOMAIN persons : Truthy(persons[i].full_name)

\* C13 (one write per resolver call): a call that succeeds either creates
\* one new person or updates the one matched person, never both, and every
\* other stored person is left as it was.
C13_OneWritePerCall ==
    (Called /\ ret # None) =>
        \/ /\ outcome = "created"
           /\ existing_person = None
           /\ ret \notin DOMAIN before
           /\ DOMAIN persons = DOMAIN before \cup {ret}
           /\ \A i \in DOMAIN before : persons[i] = before[i]
        \/ /\ outcome = "updated"
           /\ ret = existing_person
           /\ DOMAIN persons = DOMAIN before
           /\ \A i \in DOMAIN before \ {ret} : persons[i] = before[i]

\* C13 witness: with two persons stored, a merge changed the matched one.
C13_Witness ==
    /\ Called /\ outcome = "updated"
    /\ Cardinality(DOMAIN before) = 2
    /\ persons[ret] # before[ret]
    /\ \A i \in DOMAIN before \ {ret} : persons[i] = before[i]

\* The raw payload columns, one per source.
RawColumns == {k \in Columns : StartsWithRaw(k)}

\* C14 (raw payload replacement): after a merge, the matched person's raw
\* payload of the record's source is the incoming blob, and the raw
\* payloads of the other sources are as stored before.
C14_RawPayloadReplacement ==
    (Called /\ outcome = "updated") =>
        \A k \in RawColumns :
            persons[existing_person][k]
              = IF k \in DOMAIN person_data THEN person_data[k]
                ELSE before[existing_person][k]

\* C14 witness: a changed GitHub response merged into a person that holds
\* an older GitHub payload and a KAKEN payload.
C14_Witness ==
    /\ Called /\ outcome = "updated"
    /\ Get(person_data, "raw_github_data") = "gh2"
    /\ before[existing_person].raw_github_data = "gh"
    /\ before[existing_person].raw_kaken_data = "kk"
    /\ persons[existing_person].raw_github_data = "gh2"
    /\ persons[existing_person].raw_kaken_data = "kk"

\* The latest step was a match run (match_requirements returned; the
\* write-back succeeded or raised).
MatchRan == outcome \in {"scored", "score_failed"}

\* The rows the latest match run scored, and the tokens of its requirement
\* followed by those of each row's summary.
ScoredRows == [i \in 1..Len(all_persons) |-> persons[all_persons[i]]]

RunTokens ==
    <<preprocess_text(run_requirements, resources_ok, TRUE)>>
    \o [i \in 1..Len(all_persons) |->
           preprocess_text(ScoredRows[i].experience_summary, resources_ok, TRUE)]

\* Every text of the run, the requirement included, normalizes to nothing.
AllDegenerate == \A i \in DOMAIN RunTokens : RunTokens[i] = << >>

\* C15 (matcher output shape and order): for a non-empty requirement and a
\* non-empty person list on which vectorization succeeds, the result has
\* one (person_id, score) pair per input person, each with that person's
\* own score, by descending score, equal scores in input order.
C15_MatcherShapeAndOrder ==
    (/\ MatchRan
     /\ Truthy(run_requirements)
     /\ all_persons # << >>
     /\ ~AllDegenerate)
    => LET n == Len(all_persons)
       IN  /\ Len(similarity_scores) = n
           /\ Len(match_results) = n
           /\ \E pos \in Orders(1..n) :
                 /\ \A k \in 1..n :
                       match_results[k]
                         = <<all_persons[pos[k]], similarity_scores[pos[k]]>>
                 /\ \A k, l \in 1..n :
                       k < l =>
                         \/ match_results[k][2] > match_results[l][2]
                         \/ /\ match_results[k][2] = match_results[l][2]
                            /\ pos[k] < pos[l]

\* C15 witness: two persons scored, the second higher than the first, and
\* returned first.
C15_Witness ==
    /\ MatchRan
    /\ Len(all_persons) = 2
    /\ Len(similarity_scores) = 2
    /\ similarity_scores[1] < similarity_scores[2]
    /\ match_results = <<<<all_persons[2], similarity_scores[2]>>,
                         <<all_persons[1], similarity_scores[1]>>>>

\* C16 (matcher empty input): with an empty requirement or an empty person
\* list match_requirements returns [] and runs neither the normalizer nor
\* the vectorizer.
C16_MatcherEmptyInput ==
    (MatchRan /\ (run_requirements = "" \/ all_persons = << >>))
    => /\ match_results = << >>
       /\ match_trace = << >>

\* C16 witness: an empty requirement matched against a stored person that
\* has a summary.
C16_Witness ==
    /\ MatchRan
    /\ run_requirements = ""
    /\ \E i \in 1..Len(all_persons) :
          Truthy(persons[all_persons[i]].experience_summary)
    /\ match_results = << >>
    /\ match_trace = << >>

\* C17 (matcher failure yields an empty result): when the vectorization
\* fails because every text normalizes to zero tokens, match_requirements
\* returns []; a result is never partial; match_requirements never raises,
\* so a match run fails only when its write-back does.
C17_MatcherFailureEmpty ==
    MatchRan =>
        /\ (Truthy(run_requirements) /\ all_persons # << >> /\ AllDegenerate)
              => match_results = << >>
        /\ match_results = << >> \/ Len(match_results) = Len(all_persons)
        /\ db_ok => outcome = "scored"

\* C17 witness: a non-empty requirement and a stored person, all texts
\* normalizing to nothing; the vectorizer was reached and the result is [].
C17_Witness ==
    /\ MatchRan
    /\ Truthy(run_requirements)
    /\ all_persons # << >>
    /\ AllDegenerate
    /\ "TfidfVectorizer" \in Elements(match_trace)
    /\ match_results = << >>

\* C18 (persons without usable text are scored, not dropped): in a
\* non-empty result, every person whose summary is absent, empty or without
\* tokens, and every person who shares no token with the requirement, is
\* listed with score 0.
C18_NoTextScoredZero ==
    (MatchRan /\ match_results # << >>)
    => \A i \in 1..Len(all_persons) :
          (VectorizerTerms(RunTokens[i + 1]) \cap VectorizerTerms(RunTokens[1]) = {})
          => <<all_persons[i], 0>> \in Elements(match_results)

\* C18 witness: a result that lists a person without summary with score 0
\* next to a person with a positive score.
C18_Witness ==
    /\ MatchRan
    /\ \E i \in 1..Len(all_persons) :
          /\ persons[all_persons[i]].experience_summary = None
          /\ <<all_persons[i], 0>> \in Elements(match_results)
    /\ \E k \in 1..Len(match_results) : match_results[k][2] > 0

\* What a match run or a call of update_match_scores does to the persons
\* table and the match_score column: the table is as it was; a score is
\* stored only for stored persons; the score of a person the dictionary
\* does not name is unchanged; a named stored person has the dictionary's
\* score after a successful write, and a failed write changes nothing.
ScoreWriteFrame ==
    /\ persons = before
    /\ DOMAIN match_score \subseteq DOMAIN persons
    /\ \A i \in DOMAIN persons \ DOMAIN run_score_dict :
          /\ i \in DOMAIN match_score <=> i \in DOMAIN score_before
          /\ i \in DOMAIN match_score => match_score[i] = score_before[i]
    /\ outcome \in {"scored", "scores_written"} =>
          \A i \in DOMAIN persons \cap DOMAIN run_score_dict :
              i \in DOMAIN match_score /\ match_score[i] = run_score_dict[i]
    /\ outcome \in {"score_failed", "scores_write_failed"} =>
          match_score = score_before

\* The latest call was a match run or a call of update_match_scores.
ScoreWritten ==
    outcome \in {"scored", "score_failed", "scores_written", "scores_write_failed"}

\* C19 as stated (a match run touches only match_score): a match run or a
\* call of update_match_scores changes nothing but match_score, so every
\* other field of every person, last_updated_at included, is as before.
C19_MatchTouchesOnlyScore ==
    ScoreWritten => (ScoreWriteFrame /\ last_updated_at = updated_at_before)

\* C19 (a match run touches only match_score and the timestamp): a match
\* run or a call of update_match_scores creates and deletes no person,
\* skips ids that are not stored, changes match_score for the named
\* persons only, and changes no other field except that last_updated_at
\* is refreshed for exactly the persons whose match_score changed.
C19_MatchTouchesScoreAndTimestamp ==
    ScoreWritten =>
        /\ ScoreWriteFrame
        /\ DOMAIN last_updated_at = DOMAIN persons
        /\ \A i \in DOMAIN persons :
              IF i \in DOMAIN match_score
                 /\ (i \notin DOMAIN score_before \/ match_score[i] # score_before[i])
              THEN last_updated_at[i] > updated_at_before[i]
              ELSE last_updated_at[i] = updated_at_before[i]

\* C19 witness: a dictionary naming one of two stored persons and an id
\* that is not stored was written; only the named stored person has a
\* score.
C19_Witness ==
    /\ outcome = "scores_written"
    /\ StaleId \in DOMAIN run_score_dict
    /\ Cardinality(DOMAIN persons) = 2
    /\ Cardinality(DOMAIN match_score) = 1
    /\ DOMAIN match_score \subseteq DOMAIN run_score_dict
    /\ \E i \in DOMAIN match_score : last_updated_at[i] > updated_at_before[i]

\* C20 (scores are overwritten wholesale on each match run): after
\* match_requirements_with_persons returned for a non-empty requirement,
\* every stored person's match_score is the score that run computed for it.
C20_ScoresOverwrittenWholesale ==
    (outcome = "scored" /\ Truthy(run_requirements))
    => \A i \in DOMAIN persons :
          /\ i \in DOMAIN match_score
          /\ \E k \in 1..Len(similarity_scores) :
                all_persons[k] = i /\ match_score[i] = similarity_scores[k]

\* C21 (parallel ingestion serializes persistence): in a run that uses the
\* thread pool, every call of _save_person_to_db is made by the calling
\* thread and at a time when no worker task is unfinished.
C21_ParallelSerializesPersistence ==
    parallel_mode =>
        \A k \in 1..Len(save_log) :
            /\ save_log[k].thread = "main"
            /\ save_log[k].unfinished = {}

\* C21 witness: a pool run of four tasks has returned after saving at
\* least two gathered records.
C21_Witness ==
    /\ parallel_mode
    /\ collect_pc = "returned"
    /\ Cardinality(DOMAIN future_to_task) >= ParallelThreshold
    /\ Len(save_log) >= 2
    /\ Cardinality(DOMAIN persons) >= 1

\* C22 (per-record failures do not abort a batch): when a run of
\* collect_data or collect_data_parallel has returned, every record that a
\* task produced was passed to _save_person_to_db exactly once, whatever
\* happened to the other records and tasks, and every call that returned
\* an id left that person in the store.
C22_FailuresDoNotAbortBatch ==
    collect_pc = "returned" =>
        /\ \A t \in DOMAIN task_result :
              \A i \in 1..Len(task_result[t]) :
                  \E k \in 1..Len(save_log) : save_log[k].data = task_result[t][i]
        /\ Len(save_log) = Len(collected_data)
        /\ total_collected = Len(collected_data)
        /\ \A k \in 1..Len(save_log) :
              save_log[k].ret # None => save_log[k].ret \in DOMAIN persons

\* C22 witness: a pool run has returned in which one task raised, the save
\* of one record failed and the save of a later record succeeded.
C22_Witness ==
    /\ collect_pc = "returned"
    /\ parallel_mode
    /\ \E t \in DOMAIN task_result : task_result[t] = << >>
    /\ \E k, j \in 1..Len(save_log) :
          k < j /\ save_log[k].ret = None /\ save_log[j].ret # None

\* C23 (bulk reset): a successful reset_database leaves the store empty
\* and returns the number of persons it held; a failed one leaves every
\* person in place; a save or a match run never removes a stored person.
C23_BulkReset ==
    /\ outcome = "reset" =>
          /\ persons = << >>
          /\ match_score = << >>
          /\ deleted_count = Cardinality(DOMAIN before)
    /\ outcome = "reset_failed" => persons = before
    /\ outcome \notin {"reset", "reset_failed"} => DOMAIN before \subseteq DOMAIN persons

\* C23 witness: a reset has removed two persons.
C23_Witness ==
    /\ outcome = "reset"
    /\ Cardinality(DOMAIN before) = 2
    /\ deleted_count = 2
    /\ persons = << >>

\* C24 (normalizer failure degrades to an empty token sequence):
\* preprocess_text returns the empty sequence for an absent or empty text
\* and for a text whose language's tokenizer is unavailable, and a match
\* run over that person and a person with an English summary still scores
\* both persons whenever the English pipeline works.
C24_NormalizerFailureDegrades ==
    normalized =>
        /\ ~Truthy(input_text) => output_tokens = << >>
        /\ (Truthy(input_text) /\ IsJapaneseText(input_text) /\ ~mecab_available)
              => output_tokens = << >>
        /\ (Truthy(input_text) /\ ~IsJapaneseText(input_text) /\ ~nltk_available)
              => output_tokens = << >>
        /\ nltk_available => Len(mixed_match_results) = 2

\* C24 witness: a Japanese text was normalized without the MeCab tagger,
\* and the match scored both persons.
C24_Witness ==
    /\ normalized
    /\ Truthy(input_text)
    /\ IsJapaneseText(input_text)
    /\ ~mecab_available
    /\ nltk_available
    /\ output_tokens = << >>
    /\ Len(mixed_match_results) = 2

\* The stored persons that hold an identity the two records share.
SharedIdentityHolders(d1, d2) ==
    {i \in DOMAIN persons :
        \/ /\ Truthy(Get(d1, "email")) /\ Get(d1, "email") = Get(d2, "email")
           /\ persons[i].email = Get(d1, "email")
        \/ /\ Truthy(Get(d1, "orcid_id")) /\ Get(d1, "orcid_id") = Get(d2, "orcid_id")
           /\ persons[i].orcid_id = Get(d1, "orcid_id")
        \/ /\ Truthy(Get(d1, "github_username"))
           /\ Get(d1, "github_username") = Get(d2, "github_username")
           /\ persons[i].github_username = Get(d1, "github_username")
        \/ /\ Truthy(Get(d1, "full_name")) /\ Truthy(Get(d1, "current_affiliation"))
           /\ Get(d1, "full_name") = Get(d2, "full_name")
           /\ Get(d1, "current_affiliation") = Get(d2, "current_affiliation")
           /\ persons[i].full_name = Get(d1, "full_name")
           /\ persons[i].current_affiliation = Get(d1, "current_affiliation")}

\* C25 (concurrent resolution of the same identity creates no duplicate):
\* when two resolver calls both looked up before either wrote, and both
\* have finished, at most one stored person holds an identity the two
\* records share.
C25_NoDuplicateUnderRace ==
    (overlapped /\ \A t \in Threads : resolver_pc[t] = "done")
    => Cardinality(SharedIdentityHolders(resolver_data["t1"], resolver_data["t2"])) <= 1

C27_MigrationBackfill ==
    /\ migration_outcome = "added" =>
          /\ "data_sources" \in table_columns
          /\ \A id \in DOMAIN sqlite_rows :
                /\ id \in DOMAIN data_sources_cell
                /\ data_sources_cell[id] = InferSources(sqlite_rows[id])
    /\ migration_outcome = "present" => data_sources_cell = cells_before

\* C28 (dashboard collection guard): the service has been called once for
\* every accepted click, except for the click whose run is still to come
\* (collecting is true exactly then); a script run that called the service
\* leaves collecting false, and collection_completed is true only after a
\* call that returned.
C28_DashboardCollectionGuard ==
    /\ accepted_clicks = service_calls + (IF collecting THEN 1 ELSE 0)
    /\ called_in_run => ~collecting
    /\ collecting => ~collection_completed
    /\ collection_completed => service_calls >= 1

\* C28 witness: a second click was accepted and its run called the service
\* again and completed with one record collected.
C28_Witness ==
    /\ accepted_clicks = 2
    /\ service_calls = 2
    /\ called_in_run
    /\ ~collecting
    /\ collection_completed
    /\ collected_count = 1

\* The latest step was a call of _save_person_to_db with the record of the
\* call before it, nothing in between, the database accepting both writes.
SavedTwiceInSequence ==
    /\ Called
    /\ db_ok
    /\ person_data \in ClientRecords
    /\ calls' = calls + 1
    /\ outcome' \in {"created", "updated", "failed"}
    /\ db_ok'
    /\ person_data' = person_data

\* C29 (re-ingestion resolves to the same person): when a record of one of
\* the four source clients is saved twice in sequence, both calls return
\* the id of a stored person, the same id both times, and the two calls
\* together have added no more than that one person to the store.
C29_ReingestionSamePerson ==
    [][SavedTwiceInSequence =>
          /\ ret # None
          /\ ret' = ret
          /\ ret' \in DOMAIN persons'
          /\ Cardinality(DOMAIN persons') <= Cardinality(DOMAIN before) + 1]_vars

\* The identifier columns a merge may write.
StoredIdentifiers == {"email", "orcid_id", "github_username"}

\* C30 (a merge never erases a stored identifier): after a call that merged
\* a record into a stored person, every email, orcid_id and github_username
\* that was non-empty on any stored person before the call is still
\* non-empty on that person.
C30_MergeKeepsStoredIdentifiers ==
    (Called /\ outcome = "updated") =>
        \A i \in DOMAIN before : \A k \in StoredIdentifiers :
            Truthy(before[i][k]) => i \in DOMAIN persons /\ Truthy(persons[i][k])

====
